---- MODULE Spec2Model ----
(***************************************************************************)
(* MANTIS retrieval core: query tokenization, platform-aware lexical       *)
(* scoring and ranking (src/src/main.py).                                  *)
(*                                                                         *)
(* A Python str is modelled as a sequence of one-character strings, so     *)
(* that lower(), the regular expressions and the substring tests are       *)
(* computed character by character as the code computes them.              *)
(***************************************************************************)
EXTENDS Integers, Sequences, FiniteSets, TLC

VARIABLES
    query,            \* argument `query` of weighted_keyword_search
    knowledge_base,   \* argument `knowledge_base`: a list of chunk dicts
    top_k,            \* argument `top_k`
    pc,               \* position in weighted_keyword_search
    query_tokens,     \* local `query_tokens`
    idx,              \* position of the `for chunk in knowledge_base` iterator
    score,            \* local `score` (of the chunk scored last)
    scored_chunks,    \* local `scored_chunks`: <<score, corpus position>> pairs
    result,           \* the returned list, as corpus positions (references)
    calls,            \* the frames of the retrieval calls that run at the
                      \* same time over knowledge_base, one record of
                      \* parameters and locals per call
    chunks,           \* argument `chunks` of format_context
    fpc,              \* position in format_context
    context_parts,    \* local `context_parts` of format_context
    context,          \* the string format_context returns
    filename,         \* argument `filename` of detect_platform
    dpc,              \* position in detect_platform
    pattern_idx,      \* how many entries of PLATFORM_PATTERNS the loop has tried
    detected,         \* the tag detect_platform returns
    mpc,              \* position of main: in the chat loop, ended, or raised
    turns,            \* iterations of the chat loop so far
    user_input,       \* local `user_input` of main: the stripped line read last
    last_chunks,      \* local `last_chunks` of main, as corpus positions
    printed,          \* what the last iteration printed as its answer
    requests,         \* the generation requests sent so far (query_kobold calls)
    folder,           \* argument `folder` of ingest_manuals: whether it is a
                      \* directory, and the files os.listdir gives for it
    ipc,              \* position in ingest_manuals
    pdf_files,        \* local `pdf_files` of ingest_manuals
    pdf_idx,          \* position of the `for pdf_file in sorted(pdf_files)` iterator
    chunk_id,         \* local `chunk_id` of ingest_manuals
    ingested,         \* local `knowledge_base` of ingest_manuals
    kb_file           \* the knowledge base file: whether it exists, and its bytes

inputs == <<query, knowledge_base, top_k>>
searchVars == <<query, knowledge_base, top_k, pc, query_tokens, idx, score,
                scored_chunks, result>>
callVars == <<calls>>
formatVars == <<chunks, fpc, context_parts, context>>
detectVars == <<filename, dpc, pattern_idx, detected>>
loopVars == <<mpc, turns, user_input, last_chunks, printed, requests>>
ingestVars == <<folder, ipc, pdf_files, pdf_idx, chunk_id, ingested>>
fileVars == <<kb_file>>
vars == <<searchVars, callVars, formatVars, detectVars, loopVars, ingestVars, fileVars>>

\* What a single retrieval call leaves alone
outsideSearch == <<callVars, formatVars, detectVars, loopVars, ingestVars, fileVars>>
\* What format_context leaves alone
outsideFormat == <<searchVars, callVars, detectVars, loopVars, ingestVars, fileVars>>
\* What detect_platform leaves alone
outsideDetect == <<searchVars, callVars, formatVars, loopVars, ingestVars, fileVars>>
\* What the chat loop of main leaves alone: it reads knowledge_base and
\* writes its own locals
outsideLoop == <<searchVars, callVars, formatVars, detectVars, ingestVars, fileVars>>
\* What ingest_manuals leaves alone
outsideIngest == <<searchVars, callVars, formatVars, detectVars, loopVars, fileVars>>

\* The knowledge base file when it does not exist, and with given bytes
NoFile == [exists |-> FALSE, bytes |-> <<>>]
FileOf(bytes) == [exists |-> TRUE, bytes |-> bytes]

----------------------------------------------------------------------------
(* Characters and str methods *)

UpperLetters ==
    << "A", "B", "C", "D", "E", "F", "G", "H", "I", "J", "K", "L", "M",
       "N", "O", "P", "Q", "R", "S", "T", "U", "V", "W", "X", "Y", "Z" >>
LowerLetters ==
    << "a", "b", "c", "d", "e", "f", "g", "h", "i", "j", "k", "l", "m",
       "n", "o", "p", "q", "r", "s", "t", "u", "v", "w", "x", "y", "z" >>
Digits == {"0", "1", "2", "3", "4", "5", "6", "7", "8", "9"}

Range(f) == {f[i] : i \in DOMAIN f}

LowerSet == Range(LowerLetters)
UpperSet == Range(UpperLetters)

IsLowerLetter(c) == c \in LowerSet
IsDigit(c) == c \in Digits

\* \w of Python's re on the characters used here: letters, digits, underscore
WordChars == LowerSet \cup UpperSet \cup Digits \cup {"_"}
IsWordChar(c) == c \in WordChars

\* str.lower() on one character
LowerOf == [c \in UpperSet |->
               LowerLetters[CHOOSE i \in DOMAIN UpperLetters : UpperLetters[i] = c]]
LowerChar(c) == IF c \in UpperSet THEN LowerOf[c] ELSE c

\* str.upper()
UpperOf == [c \in LowerSet |->
               UpperLetters[CHOOSE i \in DOMAIN LowerLetters : LowerLetters[i] = c]]
Upper(s) == [i \in 1..Len(s) |-> IF s[i] \in LowerSet THEN UpperOf[s[i]] ELSE s[i]]

\* str.lower()
Lower(s) == [i \in 1..Len(s) |-> LowerChar(s[i])]

\* `needle in hay` for two str
Contains(hay, needle) ==
    \E i \in 0..(Len(hay) - Len(needle)) :
        \A j \in 1..Len(needle) : hay[i + j] = needle[j]

\* " ".join(parts)
RECURSIVE JoinSpace(_)
JoinSpace(parts) ==
    IF Len(parts) = 0 THEN <<>>
    ELSE IF Len(parts) = 1 THEN parts[1]
    ELSE parts[1] \o <<" ">> \o JoinSpace(Tail(parts))

----------------------------------------------------------------------------
(* Configuration tables of main.py *)

TOP_K_CHUNKS == 3

STOPWORDS ==
  {
    <<"a">>, <<"a", "n">>, <<"t", "h", "e">>, <<"a", "n", "d">>, <<"o", "r">>,
    <<"b", "u", "t">>, <<"i", "s">>, <<"a", "r", "e">>, <<"w", "a", "s">>,
    <<"w", "e", "r", "e">>, <<"b", "e">>, <<"b", "e", "e", "n">>,
    <<"b", "e", "i", "n", "g">>, <<"h", "a", "v", "e">>, <<"h", "a", "s">>,
    <<"h", "a", "d">>, <<"d", "o">>, <<"d", "o", "e", "s">>, <<"d", "i", "d">>,
    <<"w", "i", "l", "l">>, <<"w", "o", "u", "l", "d">>, <<"c", "o", "u", "l", "d">>,
    <<"s", "h", "o", "u", "l", "d">>, <<"m", "a", "y">>, <<"m", "i", "g", "h", "t">>,
    <<"m", "u", "s", "t">>, <<"s", "h", "a", "l", "l">>, <<"c", "a", "n">>,
    <<"t", "o">>, <<"o", "f">>, <<"i", "n">>, <<"f", "o", "r">>, <<"o", "n">>,
    <<"w", "i", "t", "h">>, <<"a", "t">>, <<"b", "y">>, <<"f", "r", "o", "m">>,
    <<"a", "s">>, <<"i", "n", "t", "o">>, <<"t", "h", "r", "o", "u", "g", "h">>,
    <<"d", "u", "r", "i", "n", "g">>, <<"b", "e", "f", "o", "r", "e">>,
    <<"a", "f", "t", "e", "r">>, <<"a", "b", "o", "v", "e">>,
    <<"b", "e", "l", "o", "w">>, <<"b", "e", "t", "w", "e", "e", "n">>,
    <<"u", "n", "d", "e", "r">>, <<"a", "g", "a", "i", "n">>,
    <<"f", "u", "r", "t", "h", "e", "r">>, <<"t", "h", "e", "n">>,
    <<"o", "n", "c", "e">>, <<"h", "e", "r", "e">>, <<"t", "h", "e", "r", "e">>,
    <<"w", "h", "e", "n">>, <<"w", "h", "e", "r", "e">>, <<"w", "h", "y">>,
    <<"h", "o", "w">>, <<"a", "l", "l">>, <<"e", "a", "c", "h">>, <<"f", "e", "w">>,
    <<"m", "o", "r", "e">>, <<"m", "o", "s", "t">>, <<"o", "t", "h", "e", "r">>,
    <<"s", "o", "m", "e">>, <<"s", "u", "c", "h">>, <<"n", "o">>, <<"n", "o", "r">>,
    <<"n", "o", "t">>, <<"o", "n", "l", "y">>, <<"o", "w", "n">>,
    <<"s", "a", "m", "e">>, <<"s", "o">>, <<"t", "h", "a", "n">>, <<"t", "o", "o">>,
    <<"v", "e", "r", "y">>, <<"j", "u", "s", "t">>, <<"a", "b", "o", "u", "t">>,
    <<"w", "h", "a", "t">>, <<"w", "h", "i", "c", "h">>, <<"w", "h", "o">>,
    <<"w", "h", "o", "m">>, <<"t", "h", "i", "s">>, <<"t", "h", "a", "t">>,
    <<"t", "h", "e", "s", "e">>, <<"t", "h", "o", "s", "e">>, <<"a", "m">>, <<"i">>,
    <<"m", "e">>, <<"m", "y">>, <<"w", "e">>, <<"o", "u", "r">>, <<"y", "o", "u">>,
    <<"y", "o", "u", "r">>, <<"h", "e">>, <<"h", "i", "m">>, <<"h", "i", "s">>,
    <<"s", "h", "e">>, <<"h", "e", "r">>, <<"i", "t">>, <<"i", "t", "s">>,
    <<"t", "h", "e", "y">>, <<"t", "h", "e", "m">>, <<"t", "h", "e", "i", "r">>,
    <<"i", "f">>, <<"u", "p">>, <<"o", "u", "t">>, <<"o", "f", "f">>,
    <<"o", "v", "e", "r">>, <<"a", "n", "y">>
  }

----------------------------------------------------------------------------
(* tokenize_query *)

\* One match of [a-z]{1,2}[\-_]?\d{1,2} starting at position i of s: the
\* position of its last character, or 0 when the pattern does not match at i.
\* The quantifiers are greedy and backtrack: two letters are tried before
\* one, the separator before no separator, two digits before one.
PlatformMatchEnd(s, i) ==
    LET n == Len(s)
        Let(k) == k <= n /\ IsLowerLetter(s[k])
        Dig(k) == k <= n /\ IsDigit(s[k])
        Sep(k) == k <= n /\ s[k] \in {"-", "_"}
        DigitsEnd(k) == IF Dig(k) THEN (IF Dig(k + 1) THEN k + 1 ELSE k) ELSE 0
        AfterLetters(k) ==
            IF Sep(k) /\ DigitsEnd(k + 1) # 0 THEN DigitsEnd(k + 1) ELSE DigitsEnd(k)
    IN  IF ~Let(i) THEN 0
        ELSE IF Let(i + 1) /\ AfterLetters(i + 2) # 0 THEN AfterLetters(i + 2)
        ELSE AfterLetters(i + 1)

\* re.findall(r"[a-z]{1,2}[\-_]?\d{1,2}", s), scanning from position i
RECURSIVE FindAllPlatform(_, _)
FindAllPlatform(s, i) ==
    IF i > Len(s) THEN <<>>
    ELSE LET e == PlatformMatchEnd(s, i)
         IN  IF e # 0 THEN <<SubSeq(s, i, e)>> \o FindAllPlatform(s, e + 1)
             ELSE FindAllPlatform(s, i + 1)

\* Last position of the maximal run of characters of Class that
\* starts at i (a greedy + of a character class)
RECURSIVE RunEnd(_, _, _)
RunEnd(s, i, Class) ==
    IF i < Len(s) /\ s[i + 1] \in Class THEN RunEnd(s, i + 1, Class) ELSE i

\* re.findall(r"[a-z]+|\d+", s), scanning from position i
RECURSIVE FindAllParts(_, _)
FindAllParts(s, i) ==
    IF i > Len(s) THEN <<>>
    ELSE IF IsLowerLetter(s[i])
         THEN LET e == RunEnd(s, i, LowerSet)
              IN  <<SubSeq(s, i, e)>> \o FindAllParts(s, e + 1)
    ELSE IF IsDigit(s[i])
         THEN LET e == RunEnd(s, i, Digits)
              IN  <<SubSeq(s, i, e)>> \o FindAllParts(s, e + 1)
    ELSE FindAllParts(s, i + 1)

LowerAlnum == LowerSet \cup Digits
IsLowerAlnum(c) == c \in LowerAlnum

\* re.findall(r"[a-z0-9]+", s), scanning from position i
RECURSIVE FindAllAlnum(_, _)
FindAllAlnum(s, i) ==
    IF i > Len(s) THEN <<>>
    ELSE IF IsLowerAlnum(s[i])
         THEN LET e == RunEnd(s, i, LowerAlnum)
              IN  <<SubSeq(s, i, e)>> \o FindAllAlnum(s, e + 1)
    ELSE FindAllAlnum(s, i + 1)

\* platform_parts: the letter runs and digit runs of every platform token
PlatformParts(platform_tokens) ==
    UNION {Range(FindAllParts(platform_tokens[k], 1)) : k \in DOMAIN platform_tokens}

\* The filter without the platform_parts test
FilterRegularKeepingParts(regular_tokens, platform_parts) ==
    LET Keep(t) == t \notin STOPWORDS /\ Len(t) > 1
    IN  SelectSeq(regular_tokens, Keep)

\* The list comprehension filtering regular_tokens
FilterRegular(regular_tokens, platform_parts) ==
    LET Keep(t) == t \notin STOPWORDS /\ Len(t) > 1 /\ t \notin platform_parts
    IN  SelectSeq(regular_tokens, Keep)

\* The seen/tokens loop: first occurrences, in order
RECURSIVE Dedupe(_, _)
Dedupe(seq, seen) ==
    IF seq = <<>> THEN <<>>
    ELSE IF Head(seq) \in seen THEN Dedupe(Tail(seq), seen)
    ELSE <<Head(seq)>> \o Dedupe(Tail(seq), seen \cup {Head(seq)})

\* tokenize_query with all_tokens = regular_tokens + platform_tokens
tokenize_query_RegularFirst(q) ==
    LET query_lower == Lower(q)
        platform_tokens == FindAllPlatform(query_lower, 1)
        platform_parts == PlatformParts(platform_tokens)
        regular_tokens == FilterRegular(FindAllAlnum(query_lower, 1), platform_parts)
    IN  Dedupe(regular_tokens \o platform_tokens, {})

tokenize_query(q) ==
    LET query_lower == Lower(q)
        platform_tokens == FindAllPlatform(query_lower, 1)
        platform_parts == PlatformParts(platform_tokens)
        regular_tokens == FilterRegular(FindAllAlnum(query_lower, 1), platform_parts)
    IN  Dedupe(platform_tokens \o regular_tokens, {})

----------------------------------------------------------------------------
(* weighted_keyword_search: scoring one chunk *)

\* \b at the gap after position p of s (p = 0: before the first character):
\* exactly one of the two neighbours is a word character
WordBoundary(s, p) ==
    (p >= 1 /\ IsWordChar(s[p])) # (p < Len(s) /\ IsWordChar(s[p + 1]))

\* The pattern without its two \b: re.escape(token) matches at position i
TokenMatchesAtNoBoundary(s, i, token) ==
    /\ i + Len(token) - 1 <= Len(s)
    /\ SubSeq(s, i, i + Len(token) - 1) = token

\* r"\b" + re.escape(token) + r"\b" matches at position i of s
TokenMatchesAt(s, i, token) ==
    /\ i + Len(token) - 1 <= Len(s)
    /\ SubSeq(s, i, i + Len(token) - 1) = token
    /\ WordBoundary(s, i - 1)
    /\ WordBoundary(s, i + Len(token) - 1)

\* len(re.findall(pattern, s)): non-overlapping matches, left to right from i
RECURSIVE CountMatches(_, _, _)
CountMatches(s, i, token) ==
    IF i > Len(s) THEN 0
    ELSE IF TokenMatchesAt(s, i, token)
         THEN 1 + CountMatches(s, i + Len(token), token)
    ELSE CountMatches(s, i + 1, token)

\* The token loop with score -= len(matches)
RECURSIVE KeywordScoreSubtracting(_, _)
KeywordScoreSubtracting(tokens, text_lower) ==
    IF tokens = <<>> THEN 0
    ELSE KeywordScoreSubtracting(Tail(tokens), text_lower)
             - CountMatches(text_lower, 1, Head(tokens))

\* The `for token in query_tokens` loop: score += len(matches)
RECURSIVE KeywordScore(_, _)
KeywordScore(tokens, text_lower) ==
    IF tokens = <<>> THEN 0
    ELSE CountMatches(text_lower, 1, Head(tokens)) + KeywordScore(Tail(tokens), text_lower)

s_UNKNOWN == <<"U", "N", "K", "N", "O", "W", "N">>

\* The list scanned by the penalty branch
PenaltyForms ==
    << <<"a", "h", "-", "1">>, <<"r", "c", "-", "1", "2">>, <<"u", "h", "-", "1">>,
       <<"o", "h", "-", "5", "8">>, <<"c", "-", "1", "2">>,
       <<"c", "h", "-", "4", "7">>, <<"u", "h", "-", "6", "0">> >>

\* The penalty loop without its break: -5 for every mismatching form
RECURSIVE PenaltyScanNoBreak(_, _, _)
PenaltyScanNoBreak(forms, platform_lower, query_lower) ==
    IF forms = <<>> THEN 0
    ELSE (IF Contains(query_lower, Head(forms)) /\ ~Contains(platform_lower, Head(forms))
          THEN -5 ELSE 0)
         + PenaltyScanNoBreak(Tail(forms), platform_lower, query_lower)

\* The `for pt in [...]` loop with its break: -5 at the first form that is in
\* the query and not in the tag, 0 when the list is exhausted
RECURSIVE PenaltyScan(_, _, _)
PenaltyScan(forms, platform_lower, query_lower) ==
    IF forms = <<>> THEN 0
    ELSE IF Contains(query_lower, Head(forms)) /\ ~Contains(platform_lower, Head(forms))
         THEN -5
    ELSE PenaltyScan(Tail(forms), platform_lower, query_lower)

\* chunk.get("platform", "UNKNOWN")
ChunkPlatform(chunk) ==
    IF "platform" \in DOMAIN chunk THEN chunk.platform ELSE s_UNKNOWN

\* The platform if/elif with the bonus branch missing
PlatformScoreNoBonus(platform, query_lower) ==
    IF platform # s_UNKNOWN
    THEN PenaltyScan(PenaltyForms, Lower(platform), query_lower)
    ELSE 0

\* The platform if/elif
PlatformScore(platform, query_lower) ==
    IF platform # s_UNKNOWN /\ Contains(query_lower, Lower(platform)) THEN 10
    ELSE IF platform # s_UNKNOWN
         THEN PenaltyScan(PenaltyForms, Lower(platform), query_lower)
    ELSE 0

\* The phrase bonus with the phrase built from query_tokens[:2]
PhraseScoreFirstTwo(tokens, text_lower) ==
    IF Len(tokens) >= 2
    THEN IF Contains(text_lower, JoinSpace(SubSeq(tokens, 1, 2))) THEN 5 ELSE 0
    ELSE 0

\* The exact phrase bonus
PhraseScore(tokens, text_lower) ==
    IF Len(tokens) >= 2
    THEN LET phrase == JoinSpace(SubSeq(tokens, 1, IF Len(tokens) < 3 THEN Len(tokens) ELSE 3))
         IN  IF Contains(text_lower, phrase) THEN 5 ELSE 0
    ELSE 0

\* `score` at the end of one iteration of the chunk loop
ChunkScore(tokens, query_lower, chunk) ==
    LET text_lower == Lower(chunk.text)
    IN  KeywordScore(tokens, text_lower)
        + PlatformScore(ChunkPlatform(chunk), query_lower)
        + PhraseScore(tokens, text_lower)

MIN_SCORE == 3

----------------------------------------------------------------------------
(* weighted_keyword_search: ranking *)

\* list.sort(key=lambda x: x[0], reverse=True): a stable sort by score
\* descending; elements of equal score keep their order
\* An unstable descending sort: an element is placed before its equals
RECURSIVE InsertBeforeEquals(_, _)
InsertBeforeEquals(sorted, e) ==
    IF sorted = <<>> THEN <<e>>
    ELSE IF Head(sorted)[1] > e[1] THEN <<Head(sorted)>> \o InsertBeforeEquals(Tail(sorted), e)
    ELSE <<e>> \o sorted

RECURSIVE InsertByScore(_, _)
InsertByScore(sorted, e) ==
    IF sorted = <<>> THEN <<e>>
    ELSE IF Head(sorted)[1] >= e[1] THEN <<Head(sorted)>> \o InsertByScore(Tail(sorted), e)
    ELSE <<e>> \o sorted

\* The sort without reverse=True: ascending by score
RECURSIVE InsertByScoreAsc(_, _)
InsertByScoreAsc(sorted, e) ==
    IF sorted = <<>> THEN <<e>>
    ELSE IF Head(sorted)[1] <= e[1] THEN <<Head(sorted)>> \o InsertByScoreAsc(Tail(sorted), e)
    ELSE <<e>> \o sorted

RECURSIVE SortByScoreAsc(_)
SortByScoreAsc(seq) ==
    IF seq = <<>> THEN <<>>
    ELSE InsertByScoreAsc(SortByScoreAsc(SubSeq(seq, 1, Len(seq) - 1)), seq[Len(seq)])

RECURSIVE SortByScoreDesc(_)
SortByScoreDesc(seq) ==
    IF seq = <<>> THEN <<>>
    ELSE InsertByScore(SortByScoreDesc(SubSeq(seq, 1, Len(seq) - 1)), seq[Len(seq)])

\* Prefix with the slice taken one element too far, seq[:k + 1]
PrefixOneMore(seq, k) == SubSeq(seq, 1, IF k + 1 < Len(seq) THEN k + 1 ELSE Len(seq))

\* seq[:k] for k >= 0
Prefix(seq, k) == SubSeq(seq, 1, IF k < Len(seq) THEN k ELSE Len(seq))

\* Tokenize without the early return on an empty token list
TokenizeNoEarlyReturn ==
    /\ pc = "start"
    /\ query_tokens' = tokenize_query(query)
    /\ pc' = "loop"
    /\ UNCHANGED <<inputs, idx, score, scored_chunks, result>>
    /\ UNCHANGED outsideSearch

\* lines 127-131: lower, tokenize, early return on an empty token list
Tokenize ==
    /\ pc = "start"
    /\ query_tokens' = tokenize_query(query)
    /\ IF query_tokens' = <<>>
       THEN pc' = "done" /\ result' = <<>>
       ELSE pc' = "loop" /\ result' = result
    /\ UNCHANGED <<inputs, idx, score, scored_chunks>>
    /\ UNCHANGED outsideSearch

\* ScoreChunk keeping every chunk, whatever its score
ScoreChunkNoThreshold ==
    /\ pc = "loop"
    /\ idx < Len(knowledge_base)
    /\ LET chunk == knowledge_base[idx + 1]
       IN  IF "text" \notin DOMAIN chunk
           THEN /\ pc' = "raised"
                /\ idx' = idx + 1
                /\ UNCHANGED <<score, scored_chunks>>
           ELSE LET s == ChunkScore(query_tokens, Lower(query), chunk)
                IN  /\ score' = s
                    /\ scored_chunks' = Append(scored_chunks, <<s, idx + 1>>)
                    /\ idx' = idx + 1
                    /\ pc' = pc
    /\ UNCHANGED <<inputs, query_tokens, result>>
    /\ UNCHANGED outsideSearch

\* lines 135-166: one iteration of `for chunk in knowledge_base`;
\* chunk["text"] raises KeyError when the chunk has no "text" key
ScoreChunk ==
    /\ pc = "loop"
    /\ idx < Len(knowledge_base)
    /\ LET chunk == knowledge_base[idx + 1]
       IN  IF "text" \notin DOMAIN chunk
           THEN /\ pc' = "raised"
                /\ idx' = idx + 1
                /\ UNCHANGED <<score, scored_chunks>>
           ELSE LET s == ChunkScore(query_tokens, Lower(query), chunk)
                IN  /\ score' = s
                    /\ scored_chunks' =
                           IF s >= MIN_SCORE
                           THEN Append(scored_chunks, <<s, idx + 1>>)
                           ELSE scored_chunks
                    /\ idx' = idx + 1
                    /\ pc' = pc
    /\ UNCHANGED <<inputs, query_tokens, result>>
    /\ UNCHANGED outsideSearch

\* lines 168-172: sort and return the first top_k chunks
SortAndReturn ==
    /\ pc = "loop"
    /\ idx = Len(knowledge_base)
    /\ scored_chunks' = SortByScoreDesc(scored_chunks)
    /\ result' = [i \in 1..Len(Prefix(scored_chunks', top_k)) |-> scored_chunks'[i][2]]
    /\ pc' = "done"
    /\ UNCHANGED <<inputs, query_tokens, idx, score>>
    /\ UNCHANGED outsideSearch

Next == Tokenize \/ ScoreChunk \/ SortAndReturn

----------------------------------------------------------------------------
(* weighted_keyword_search as one call: what it returns, or that it raised *)

\* scored_chunks after the first n iterations of the chunk loop
RECURSIVE ScoredChunksAfter(_, _, _, _)
ScoredChunksAfter(tokens, query_lower, kb, n) ==
    IF n = 0 THEN <<>>
    ELSE LET before == ScoredChunksAfter(tokens, query_lower, kb, n - 1)
             s == ChunkScore(tokens, query_lower, kb[n])
         IN  IF s >= MIN_SCORE THEN Append(before, <<s, n>>) ELSE before

weighted_keyword_search(q, kb, k) ==
    LET tokens == tokenize_query(q)
    IN  IF tokens = <<>> THEN [raised |-> FALSE, chunks |-> <<>>]
        ELSE IF \E i \in DOMAIN kb : "text" \notin DOMAIN kb[i]
             THEN [raised |-> TRUE, chunks |-> <<>>]
        ELSE LET sorted == SortByScoreDesc(ScoredChunksAfter(tokens, Lower(q), kb, Len(kb)))
             IN  [raised |-> FALSE,
                  chunks |-> [i \in 1..Len(Prefix(sorted, k)) |-> sorted[i][2]]]

----------------------------------------------------------------------------
(* Several calls of weighted_keyword_search at the same time over one
   knowledge_base: each call has its own frame of parameters and locals;
   the corpus list is the one object they share *)

\* The frame of a call on entry
Frame(q, k) ==
    [query |-> q, top_k |-> k, pc |-> "start", query_tokens |-> <<>>, idx |-> 0,
     score |-> 0, scored_chunks |-> <<>>, result |-> <<>>]

\* lines 127-131 in call c
CallTokenize(c) ==
    /\ calls[c].pc = "start"
    /\ LET tokens == tokenize_query(calls[c].query)
       IN  calls' = [calls EXCEPT ![c] =
                        [@ EXCEPT !.query_tokens = tokens,
                                  !.pc = IF tokens = <<>> THEN "done" ELSE "loop"]]
    /\ UNCHANGED <<searchVars, formatVars, detectVars, loopVars, ingestVars, fileVars>>

\* One iteration of the chunk loop in call c, with scored_chunks a list that
\* all the calls share instead of a local of each
CallScoreChunkSharedList(c) ==
    /\ calls[c].pc = "loop"
    /\ calls[c].idx < Len(knowledge_base)
    /\ LET f == calls[c]
           chunk == knowledge_base[f.idx + 1]
           s == IF "text" \in DOMAIN chunk
                THEN ChunkScore(f.query_tokens, Lower(f.query), chunk) ELSE 0
           Scored(list) == IF "text" \in DOMAIN chunk /\ s >= MIN_SCORE
                           THEN Append(list, <<s, f.idx + 1>>) ELSE list
       IN  calls' = [d \in DOMAIN calls |->
                        IF d = c
                        THEN [f EXCEPT !.idx = f.idx + 1, !.score = s,
                                       !.scored_chunks = Scored(@),
                                       !.pc = IF "text" \in DOMAIN chunk THEN "loop" ELSE "raised"]
                        ELSE [calls[d] EXCEPT !.scored_chunks = Scored(@)]]
    /\ UNCHANGED <<searchVars, formatVars, detectVars, loopVars, ingestVars, fileVars>>

\* lines 135-166 in call c: one iteration of the chunk loop
CallScoreChunk(c) ==
    /\ calls[c].pc = "loop"
    /\ calls[c].idx < Len(knowledge_base)
    /\ LET f == calls[c]
           chunk == knowledge_base[f.idx + 1]
       IN  IF "text" \notin DOMAIN chunk
           THEN calls' = [calls EXCEPT ![c] = [f EXCEPT !.pc = "raised", !.idx = f.idx + 1]]
           ELSE LET s == ChunkScore(f.query_tokens, Lower(f.query), chunk)
                IN  calls' = [calls EXCEPT ![c] =
                                 [f EXCEPT !.score = s,
                                           !.scored_chunks =
                                               IF s >= MIN_SCORE
                                               THEN Append(@, <<s, f.idx + 1>>) ELSE @,
                                           !.idx = f.idx + 1]]
    /\ UNCHANGED <<searchVars, formatVars, detectVars, loopVars, ingestVars, fileVars>>

\* lines 168-172 in call c: sort and return
CallSortAndReturn(c) ==
    /\ calls[c].pc = "loop"
    /\ calls[c].idx = Len(knowledge_base)
    /\ LET f == calls[c]
           sorted == SortByScoreDesc(f.scored_chunks)
       IN  calls' = [calls EXCEPT ![c] =
                        [f EXCEPT !.scored_chunks = sorted,
                                  !.result = [i \in 1..Len(Prefix(sorted, f.top_k)) |-> sorted[i][2]],
                                  !.pc = "done"]]
    /\ UNCHANGED <<searchVars, formatVars, detectVars, loopVars, ingestVars, fileVars>>

NextCalls ==
    \E c \in DOMAIN calls : CallTokenize(c) \/ CallScoreChunk(c) \/ CallSortAndReturn(c)

----------------------------------------------------------------------------
(* format_context *)

MAX_CONTEXT_CHARS == 800

s_NoContext == <<"N", "o", " ", "r", "e", "l", "e", "v", "a", "n", "t", " ", "c", "o", "n", "t", "e", "x", "t", " ", "f", "o", "u", "n", "d", ".">>
s_Unknown == <<"U", "n", "k", "n", "o", "w", "n">>
s_QuestionMark == <<"?">>
s_SourceOpen == <<"[", "S", "o", "u", "r", "c", "e", " ">>
s_ColonSpace == <<":", " ">>
s_CommaPage == <<",", " ", "P", "a", "g", "e", " ">>
s_CloseNewline == <<"]", "\n">>
s_BlankLine == <<"\n", "\n">>

DigitChars == <<"0", "1", "2", "3", "4", "5", "6", "7", "8", "9">>

\* str(n) for an int n >= 0, as an f-string renders it
RECURSIVE IntStr(_)
IntStr(n) ==
    IF n < 10 THEN <<DigitChars[n + 1]>>
    ELSE IntStr(n \div 10) \o <<DigitChars[(n % 10) + 1]>>

\* chunk.get("source", "")
ChunkSourceEmptyDefault(chunk) == IF "source" \in DOMAIN chunk THEN chunk.source ELSE <<>>

\* chunk.get("source", "Unknown")
ChunkSource(chunk) == IF "source" \in DOMAIN chunk THEN chunk.source ELSE s_Unknown

\* chunk.get("page", "?") as the f-string renders it: page numbers are ints
ChunkPage(chunk) == IF "page" \in DOMAIN chunk THEN IntStr(chunk.page) ELSE s_QuestionMark

\* chunk.get("text", "")
ChunkText(chunk) == IF "text" \in DOMAIN chunk THEN chunk.text ELSE <<>>

\* The context part with the whole text, not cut
SectionUntruncated(i, chunk) ==
    s_SourceOpen \o IntStr(i) \o s_ColonSpace \o ChunkSource(chunk)
        \o s_CommaPage \o ChunkPage(chunk) \o s_CloseNewline
        \o ChunkText(chunk)

\* f"[Source {i}: {source}, Page {page}]\n{text}" with text cut to [:800]
Section(i, chunk) ==
    s_SourceOpen \o IntStr(i) \o s_ColonSpace \o ChunkSource(chunk)
        \o s_CommaPage \o ChunkPage(chunk) \o s_CloseNewline
        \o Prefix(ChunkText(chunk), MAX_CONTEXT_CHARS)

\* "\n\n".join(parts)
RECURSIVE JoinBlankLine(_)
JoinBlankLine(parts) ==
    IF Len(parts) = 0 THEN <<>>
    ELSE IF Len(parts) = 1 THEN parts[1]
    ELSE parts[1] \o s_BlankLine \o JoinBlankLine(Tail(parts))

\* FormatStart without the `if not chunks` return
FormatStartNoSentinel ==
    /\ fpc = "start"
    /\ fpc' = "loop"
    /\ context_parts' = <<>>
    /\ UNCHANGED <<chunks, context>>
    /\ UNCHANGED outsideFormat

\* lines 177-180: the sentinel for an empty list, else start the loop
FormatStart ==
    /\ fpc = "start"
    /\ IF chunks = <<>>
       THEN /\ context' = s_NoContext
            /\ fpc' = "done"
       ELSE /\ context' = context
            /\ fpc' = "loop"
    /\ context_parts' = <<>>
    /\ UNCHANGED chunks
    /\ UNCHANGED outsideFormat

\* The loop iteration with enumerate(chunks): numbering from 0
FormatPartFromZero ==
    /\ fpc = "loop"
    /\ Len(context_parts) < Len(chunks)
    /\ LET i == Len(context_parts) + 1
       IN  context_parts' = Append(context_parts, Section(i - 1, chunks[i]))
    /\ UNCHANGED <<chunks, fpc, context>>
    /\ UNCHANGED outsideFormat

\* lines 181-185: one iteration of `for i, chunk in enumerate(chunks, 1)`
FormatPart ==
    /\ fpc = "loop"
    /\ Len(context_parts) < Len(chunks)
    /\ LET i == Len(context_parts) + 1
       IN  context_parts' = Append(context_parts, Section(i, chunks[i]))
    /\ UNCHANGED <<chunks, fpc, context>>
    /\ UNCHANGED outsideFormat

\* line 187: join and return
FormatJoin ==
    /\ fpc = "loop"
    /\ Len(context_parts) = Len(chunks)
    /\ context' = JoinBlankLine(context_parts)
    /\ fpc' = "done"
    /\ UNCHANGED <<chunks, context_parts>>
    /\ UNCHANGED outsideFormat

NextFormat == FormatStart \/ FormatPart \/ FormatJoin

----------------------------------------------------------------------------
(* detect_platform (src/src/ingest.py) *)

\* PLATFORM_PATTERNS in declaration order, which is the order a dict is
\* iterated in. A pattern is the alternatives it is made of, each one a run
\* of letters, an optional [\-_]? and a run of digits, with or without a
\* leading and a trailing \b; letters are kept in lower case because every
\* pattern is compiled with re.IGNORECASE.
PLATFORM_PATTERNS ==
    <<
       [tag |-> <<"A", "H", "-", "1">>, left_b |-> FALSE, right_b |-> FALSE,
        alts |-> {[letters |-> <<"a", "h">>, sep |-> TRUE, digits |-> <<"1">>]}],
       [tag |-> <<"R", "C", "-", "1", "2">>, left_b |-> FALSE, right_b |-> FALSE,
        alts |-> {[letters |-> <<"r", "c">>, sep |-> TRUE, digits |-> <<"1", "2">>]}],
       [tag |-> <<"R", "D", "-", "1", "2">>, left_b |-> FALSE, right_b |-> FALSE,
        alts |-> {[letters |-> <<"r", "d">>, sep |-> TRUE, digits |-> <<"1", "2">>]}],
       [tag |-> <<"C", "-", "1", "2">>, left_b |-> TRUE, right_b |-> FALSE,
        alts |-> {[letters |-> <<"c">>, sep |-> TRUE, digits |-> <<"1", "2">>]}],
       [tag |-> <<"U", "H", "-", "1">>, left_b |-> FALSE, right_b |-> FALSE,
        alts |-> {[letters |-> <<"u", "h">>, sep |-> TRUE, digits |-> <<"1">>]}],
       [tag |-> <<"E", "H", "-", "1">>, left_b |-> FALSE, right_b |-> FALSE,
        alts |-> {[letters |-> <<"e", "h">>, sep |-> TRUE, digits |-> <<"1">>]}],
       [tag |-> <<"O", "H", "-", "5", "8">>, left_b |-> FALSE, right_b |-> FALSE,
        alts |-> {[letters |-> <<"o", "h">>, sep |-> TRUE, digits |-> <<"5", "8">>]}],
       [tag |-> <<"U", "H", "-", "6", "0">>, left_b |-> FALSE, right_b |-> FALSE,
        alts |-> {[letters |-> <<"u", "h">>, sep |-> TRUE, digits |-> <<"6", "0">>]}],
       [tag |-> <<"C", "H", "-", "4", "7">>, left_b |-> FALSE, right_b |-> FALSE,
        alts |-> {[letters |-> <<"c", "h">>, sep |-> TRUE, digits |-> <<"4", "7">>]}],
       [tag |-> <<"M", "1">>, left_b |-> TRUE, right_b |-> TRUE,
        alts |-> {[letters |-> <<"m">>, sep |-> FALSE, digits |-> <<"1">>]}],
       [tag |-> <<"M", "2">>, left_b |-> TRUE, right_b |-> TRUE,
        alts |-> {[letters |-> <<"m">>, sep |-> FALSE, digits |-> <<"2">>]}],
       [tag |-> <<"H", "M", "M", "W", "V">>, left_b |-> FALSE, right_b |-> FALSE,
        alts |-> {[letters |-> <<"h", "m", "m", "w", "v">>, sep |-> FALSE, digits |-> <<>>],
                  [letters |-> <<"h", "u", "m", "v", "e", "e">>, sep |-> FALSE, digits |-> <<>>]}]
    >>

\* The literal text lit matches at position i of s, ignoring case
LiteralAt(s, i, lit) ==
    /\ i + Len(lit) - 1 <= Len(s)
    /\ \A j \in 1..Len(lit) : LowerChar(s[i + j - 1]) = lit[j]

\* AltMatchesAt with -? in place of [\-_]?
AltMatchesAtHyphenOnly(s, i, alt, left_b, right_b) ==
    LET afterLetters == i + Len(alt.letters)
        EndsOk(e) == ~right_b \/ WordBoundary(s, e)
    IN  /\ LiteralAt(s, i, alt.letters)
        /\ left_b => WordBoundary(s, i - 1)
        /\ \/ /\ alt.sep
              /\ afterLetters <= Len(s)
              /\ s[afterLetters] = "-"
              /\ LiteralAt(s, afterLetters + 1, alt.digits)
              /\ EndsOk(afterLetters + Len(alt.digits))
           \/ /\ LiteralAt(s, afterLetters, alt.digits)
              /\ EndsOk(afterLetters + Len(alt.digits) - 1)

\* One alternative of a pattern matches at position i of s
AltMatchesAt(s, i, alt, left_b, right_b) ==
    LET afterLetters == i + Len(alt.letters)
        EndsOk(e) == ~right_b \/ WordBoundary(s, e)
    IN  /\ LiteralAt(s, i, alt.letters)
        /\ left_b => WordBoundary(s, i - 1)
        /\ \/ /\ alt.sep
              /\ afterLetters <= Len(s)
              /\ s[afterLetters] \in {"-", "_"}
              /\ LiteralAt(s, afterLetters + 1, alt.digits)
              /\ EndsOk(afterLetters + Len(alt.digits))
           \/ /\ LiteralAt(s, afterLetters, alt.digits)
              /\ EndsOk(afterLetters + Len(alt.digits) - 1)

\* pattern.search(s): the pattern matches somewhere in s
PatternSearch(pattern, s) ==
    \E i \in 1..Len(s) : \E alt \in pattern.alts :
        AltMatchesAt(s, i, alt, pattern.left_b, pattern.right_b)

\* The loop iteration with the table walked from its last entry to its first
DetectTryReversed ==
    /\ dpc = "loop"
    /\ pattern_idx < Len(PLATFORM_PATTERNS)
    /\ LET entry == PLATFORM_PATTERNS[Len(PLATFORM_PATTERNS) - pattern_idx]
       IN  IF PatternSearch(entry, filename)
           THEN detected' = entry.tag /\ dpc' = "done"
           ELSE detected' = detected /\ dpc' = dpc
    /\ pattern_idx' = pattern_idx + 1
    /\ UNCHANGED filename
    /\ UNCHANGED outsideDetect

\* lines 52-54: one iteration of `for platform, pattern in PLATFORM_PATTERNS.items()`
DetectTry ==
    /\ dpc = "loop"
    /\ pattern_idx < Len(PLATFORM_PATTERNS)
    /\ LET entry == PLATFORM_PATTERNS[pattern_idx + 1]
       IN  IF PatternSearch(entry, filename)
           THEN detected' = entry.tag /\ dpc' = "done"
           ELSE detected' = detected /\ dpc' = dpc
    /\ pattern_idx' = pattern_idx + 1
    /\ UNCHANGED filename
    /\ UNCHANGED outsideDetect

\* line 55: no pattern matched
DetectUnknown ==
    /\ dpc = "loop"
    /\ pattern_idx = Len(PLATFORM_PATTERNS)
    /\ detected' = s_UNKNOWN
    /\ dpc' = "done"
    /\ UNCHANGED <<filename, pattern_idx>>
    /\ UNCHANGED outsideDetect

NextDetect == DetectTry \/ DetectUnknown

\* detect_platform as one call
RECURSIVE DetectFrom(_, _)
DetectFrom(s, k) ==
    IF k > Len(PLATFORM_PATTERNS) THEN s_UNKNOWN
    ELSE IF PatternSearch(PLATFORM_PATTERNS[k], s) THEN PLATFORM_PATTERNS[k].tag
    ELSE DetectFrom(s, k + 1)

detect_platform(s) == DetectFrom(s, 1)

----------------------------------------------------------------------------
(* The chat loop of main (src/src/main.py) *)

\* format_context as one call
format_context(cs) ==
    IF cs = <<>> THEN s_NoContext
    ELSE JoinBlankLine([i \in 1..Len(cs) |-> Section(i, cs[i])])

Whitespace == {" ", "\t", "\n"}

\* str.strip()
RECURSIVE Strip(_)
Strip(s) ==
    IF s = <<>> THEN s
    ELSE IF s[1] \in Whitespace THEN Strip(Tail(s))
    ELSE IF s[Len(s)] \in Whitespace THEN Strip(SubSeq(s, 1, Len(s) - 1))
    ELSE s

s_quit == <<"/", "q", "u", "i", "t">>
s_help == <<"/", "h", "e", "l", "p">>
s_status == <<"/", "s", "t", "a", "t", "u", "s">>
s_sources == <<"/", "s", "o", "u", "r", "c", "e", "s">>

Commands == {s_quit, s_help, s_status, s_sources}

\* The list `unsupported_platforms`
unsupported_platforms ==
    <<
       <<"f", "-", "1", "6">>, <<"f", "-", "1", "5">>, <<"f", "-", "2", "2">>,
       <<"f", "-", "3", "5">>, <<"f", "-", "1", "8">>, <<"a", "-", "1", "0">>,
       <<"b", "-", "5", "2">>, <<"b", "-", "1">>, <<"b", "-", "2">>, <<"7", "4", "7">>,
       <<"7", "3", "7">>, <<"7", "7", "7">>, <<"7", "8", "7">>, <<"a", "3", "2", "0">>,
       <<"a", "3", "8", "0">>, <<"c", "-", "1", "3", "0">>, <<"c", "-", "1", "7">>,
       <<"c", "-", "5">>, <<"m", "i", "g">>, <<"s", "u", "-">>,
       <<"s", "u", " ", "5", "7">>, <<"f", "e", "l", "o", "n">>, <<"t", "u", "-">>,
       <<"n", "u", "c", "l", "e", "a", "r">>,
       <<"s", "u", "b", "m", "a", "r", "i", "n", "e">>, <<"s", "h", "i", "p">>,
       <<"t", "a", "n", "k">>, <<"m", "1", " ", "a", "b", "r", "a", "m", "s">>,
       <<"b", "r", "a", "d", "l", "e", "y">>, <<"s", "t", "r", "y", "k", "e", "r">>,
       <<"h", "u", "m", "v", "e", "e">>
    >>

\* The `for platform in unsupported_platforms` loop with its break: the
\* position of the first entry that is a substring of query_lower, 0 if none
RECURSIVE FirstUnsupportedFrom(_, _)
FirstUnsupportedFrom(query_lower, k) ==
    IF k > Len(unsupported_platforms) THEN 0
    ELSE IF Contains(query_lower, unsupported_platforms[k]) THEN k
    ELSE FirstUnsupportedFrom(query_lower, k + 1)

FirstUnsupported(query_lower) == FirstUnsupportedFrom(query_lower, 1)

\* What an iteration printed as its answer
Printed(kind, about) == [kind |-> kind, about |-> about]

\* The chunk dicts at the given corpus positions
ChunksAt(positions) == [i \in 1..Len(positions) |-> knowledge_base[positions[i]]]

MaxTurns == 3       \* lines the chat loop reads

\* The loop may read another line
Reading == mpc = "running" /\ turns < MaxTurns

\* lines 310-314: input() raises KeyboardInterrupt or EOFError
ReadInterrupted ==
    /\ Reading
    /\ mpc' = "ended"
    /\ turns' = turns + 1
    /\ printed' = Printed("goodbye", <<>>)
    /\ UNCHANGED <<user_input, last_chunks, requests>>
    /\ UNCHANGED outsideLoop

\* lines 316-317: a blank line
Blank(raw) ==
    /\ Reading
    /\ Strip(raw) = <<>>
    /\ user_input' = Strip(raw)
    /\ turns' = turns + 1
    /\ printed' = Printed("nothing", <<>>)
    /\ UNCHANGED <<mpc, last_chunks, requests>>
    /\ UNCHANGED outsideLoop

\* lines 320-322: /quit
Quit(raw) ==
    /\ Reading
    /\ Lower(Strip(raw)) = s_quit
    /\ user_input' = Strip(raw)
    /\ turns' = turns + 1
    /\ mpc' = "ended"
    /\ printed' = Printed("goodbye", <<>>)
    /\ UNCHANGED <<last_chunks, requests>>
    /\ UNCHANGED outsideLoop

\* lines 323-325: /help
Help(raw) ==
    /\ Reading
    /\ Lower(Strip(raw)) = s_help
    /\ user_input' = Strip(raw)
    /\ turns' = turns + 1
    /\ printed' = Printed("help", <<>>)
    /\ UNCHANGED <<mpc, last_chunks, requests>>
    /\ UNCHANGED outsideLoop

\* lines 326-331: /status; the server is online or not
Status(raw) ==
    /\ Reading
    /\ Lower(Strip(raw)) = s_status
    /\ user_input' = Strip(raw)
    /\ turns' = turns + 1
    /\ \E online \in BOOLEAN :
           printed' = Printed(IF online THEN "status online" ELSE "status offline", <<>>)
    /\ UNCHANGED <<mpc, last_chunks, requests>>
    /\ UNCHANGED outsideLoop

\* lines 332-340: /sources; chunk['source'], chunk['page'] and
\* chunk['platform'] raise KeyError on a chunk without the key
Sources(raw) ==
    /\ Reading
    /\ Lower(Strip(raw)) = s_sources
    /\ user_input' = Strip(raw)
    /\ turns' = turns + 1
    /\ IF last_chunks = <<>>
       THEN printed' = Printed("no sources", <<>>) /\ mpc' = mpc
       ELSE IF \A i \in DOMAIN last_chunks :
                   {"source", "page", "platform"} \subseteq DOMAIN knowledge_base[last_chunks[i]]
            THEN printed' = Printed("sources", last_chunks) /\ mpc' = mpc
       ELSE printed' = Printed("traceback", <<>>) /\ mpc' = "raised"
    /\ UNCHANGED <<last_chunks, requests>>
    /\ UNCHANGED outsideLoop

\* Ask without the `if not chunks` test: an empty result goes on to
\* format_context and generation
AskNoEmptyCheck(raw) ==
    /\ Reading
    /\ Strip(raw) # <<>>
    /\ Lower(Strip(raw)) \notin Commands
    /\ user_input' = Strip(raw)
    /\ turns' = turns + 1
    /\ LET found == weighted_keyword_search(user_input', knowledge_base, TOP_K_CHUNKS)
           unsupported == FirstUnsupported(Lower(user_input'))
       IN  IF found.raised
           THEN /\ mpc' = "raised"
                /\ printed' = Printed("traceback", <<>>)
                /\ UNCHANGED <<last_chunks, requests>>
           ELSE /\ mpc' = mpc
                /\ last_chunks' = found.chunks
                /\ IF unsupported # 0
                   THEN /\ printed' = Printed("refusal",
                                              Upper(unsupported_platforms[unsupported]))
                        /\ requests' = requests
                   ELSE /\ requests' =
                               Append(requests,
                                      [query |-> user_input',
                                       context |-> format_context(ChunksAt(found.chunks))])
                        /\ printed' = Printed("response", <<>>)
    /\ UNCHANGED outsideLoop

\* Ask with the `if not chunks` test placed before the unsupported-platform
\* filter
AskEmptyCheckFirst(raw) ==
    /\ Reading
    /\ Strip(raw) # <<>>
    /\ Lower(Strip(raw)) \notin Commands
    /\ user_input' = Strip(raw)
    /\ turns' = turns + 1
    /\ LET found == weighted_keyword_search(user_input', knowledge_base, TOP_K_CHUNKS)
           unsupported == FirstUnsupported(Lower(user_input'))
       IN  IF found.raised
           THEN /\ mpc' = "raised"
                /\ printed' = Printed("traceback", <<>>)
                /\ UNCHANGED <<last_chunks, requests>>
           ELSE /\ mpc' = mpc
                /\ last_chunks' = found.chunks
                /\ IF found.chunks = <<>>
                   THEN /\ printed' = Printed("no information", <<>>)
                        /\ requests' = requests
                   ELSE IF unsupported # 0
                        THEN /\ printed' = Printed("refusal",
                                                   Upper(unsupported_platforms[unsupported]))
                             /\ requests' = requests
                   ELSE /\ requests' =
                               Append(requests,
                                      [query |-> user_input',
                                       context |-> format_context(ChunksAt(found.chunks))])
                        /\ printed' = Printed("response", <<>>)
    /\ UNCHANGED outsideLoop

\* lines 343-381: any other line is a question: retrieval, the
\* unsupported-platform filter, the empty-result message, generation
Ask(raw) ==
    /\ Reading
    /\ Strip(raw) # <<>>
    /\ Lower(Strip(raw)) \notin Commands
    /\ user_input' = Strip(raw)
    /\ turns' = turns + 1
    /\ LET found == weighted_keyword_search(user_input', knowledge_base, TOP_K_CHUNKS)
           unsupported == FirstUnsupported(Lower(user_input'))
       IN  IF found.raised
           THEN /\ mpc' = "raised"
                /\ printed' = Printed("traceback", <<>>)
                /\ UNCHANGED <<last_chunks, requests>>
           ELSE /\ mpc' = mpc
                /\ last_chunks' = found.chunks
                /\ IF unsupported # 0
                   THEN /\ printed' = Printed("refusal",
                                              Upper(unsupported_platforms[unsupported]))
                        /\ requests' = requests
                   ELSE IF found.chunks = <<>>
                        THEN /\ printed' = Printed("no information", <<>>)
                             /\ requests' = requests
                   ELSE /\ requests' =
                               Append(requests,
                                      [query |-> user_input',
                                       context |-> format_context(ChunksAt(found.chunks))])
                        /\ printed' = Printed("response", <<>>)
    /\ UNCHANGED outsideLoop

----------------------------------------------------------------------------
(* Ingestion (src/src/ingest.py) *)

\* re.sub(r"\s+", " ", text): every run of whitespace becomes one space
RECURSIVE CollapseWhitespace(_)
CollapseWhitespace(text) ==
    IF text = <<>> THEN <<>>
    ELSE IF text[1] \in Whitespace
         THEN IF Len(text) > 1 /\ text[2] \in Whitespace
              THEN CollapseWhitespace(Tail(text))
              ELSE <<" ">> \o CollapseWhitespace(Tail(text))
    ELSE <<text[1]>> \o CollapseWhitespace(Tail(text))

clean_text(text) == Strip(CollapseWhitespace(text))

\* The characters of file names in code point order, which is the order
\* sorted() compares str by
CodePointOrder ==
    <<"-", ".", "0", "1", "2", "3", "4", "5", "6", "7", "8", "9">> \o UpperLetters
        \o <<"_">> \o LowerLetters

CodePoint(c) == CHOOSE i \in DOMAIN CodePointOrder : CodePointOrder[i] = c

\* a < b for two str
RECURSIVE StrLess(_, _)
StrLess(a, b) ==
    IF b = <<>> THEN FALSE
    ELSE IF a = <<>> THEN TRUE
    ELSE IF a[1] = b[1] THEN StrLess(Tail(a), Tail(b))
    ELSE CodePoint(a[1]) < CodePoint(b[1])

\* sorted(names)
RECURSIVE Sorted(_)
Sorted(names) ==
    IF names = <<>> THEN <<>>
    ELSE LET least == CHOOSE i \in DOMAIN names :
                          \A j \in DOMAIN names : j = i \/ ~StrLess(names[j], names[i])
         IN  <<names[least]>> \o
                 Sorted(SubSeq(names, 1, least - 1) \o SubSeq(names, least + 1, Len(names)))

s_dot_pdf == <<".", "p", "d", "f">>

\* f.lower().endswith(".pdf")
IsPdfName(f) ==
    /\ Len(f) >= Len(s_dot_pdf)
    /\ SubSeq(Lower(f), Len(f) - Len(s_dot_pdf) + 1, Len(f)) = s_dot_pdf

\* [f for f in os.listdir(folder) if f.lower().endswith(".pdf")]
RECURSIVE PdfNames(_)
PdfNames(files) ==
    IF files = <<>> THEN <<>>
    ELSE (IF IsPdfName(files[1].name) THEN <<files[1].name>> ELSE <<>>)
             \o PdfNames(Tail(files))

\* The file of the folder with the given name
FileNamed(name) == CHOOSE f \in Range(folder.files) : f.name = name

\* How many pages of the document are read before fitz raises: all of them
\* for a sound document, none when fitz.open raises
PagesRead(pdf) == IF pdf.broken THEN pdf.readable ELSE Len(pdf.pages)

\* The page loop of extract_pdf_pages numbering each kept page by its place
\* among the kept pages
RECURSIVE PagesFromRenumbered(_, _, _)
PagesFromRenumbered(pdf, page_num, pages) ==
    IF page_num >= PagesRead(pdf) THEN pages
    ELSE LET cleaned == clean_text(pdf.pages[page_num + 1])
         IN  PagesFromRenumbered(pdf, page_num + 1,
                                 IF cleaned # <<>>
                                 THEN Append(pages, <<Len(pages) + 1, cleaned>>)
                                 ELSE pages)

\* lines 67-72: the page loop of extract_pdf_pages from page_num on; what it
\* appended before an exception stays in `pages`
RECURSIVE PagesFrom(_, _, _)
PagesFrom(pdf, page_num, pages) ==
    IF page_num >= PagesRead(pdf) THEN pages
    ELSE LET cleaned == clean_text(pdf.pages[page_num + 1])
         IN  PagesFrom(pdf, page_num + 1,
                       IF cleaned # <<>>
                       THEN Append(pages, <<page_num + 1, cleaned>>)
                       ELSE pages)

extract_pdf_pages(pdf) == PagesFrom(pdf, 0, <<>>)

s_doc == <<"d", "o", "c">>
s_underscore_p == <<"_", "p">>

\* A chunk id made of the page number only
ChunkIdOfPageOnly(n, page_num) == s_doc \o <<"0">> \o s_underscore_p \o IntStr(page_num)

\* f"doc{chunk_id}_p{page_num}"
ChunkId(n, page_num) == s_doc \o IntStr(n) \o s_underscore_p \o IntStr(page_num)

\* lines 102-111: the chunks of one PDF, the first of them numbered first_id
ChunksOf(pdf_file, platform, pages, first_id) ==
    [i \in 1..Len(pages) |->
        [id |-> ChunkId(first_id + i - 1, pages[i][1]),
         text |-> pages[i][2],
         source |-> pdf_file,
         page |-> pages[i][1],
         platform |-> platform]]

\* lines 84-93: not a directory: return the empty list; else list the PDFs
IngestStart ==
    /\ ipc = "start"
    /\ chunk_id' = 0
    /\ ingested' = <<>>
    /\ IF ~folder.is_dir
       THEN ipc' = "done" /\ pdf_files' = pdf_files
       ELSE ipc' = "loop" /\ pdf_files' = PdfNames(folder.files)
    /\ UNCHANGED <<folder, pdf_idx>>
    /\ UNCHANGED outsideIngest

\* lines 95-111: one PDF, in sorted order: detect its platform, extract its
\* pages, append one chunk per page
IngestPdf ==
    /\ ipc = "loop"
    /\ pdf_idx < Len(pdf_files)
    /\ LET pdf_file == Sorted(pdf_files)[pdf_idx + 1]
           platform == detect_platform(pdf_file)
           pages == extract_pdf_pages(FileNamed(pdf_file))
       IN  /\ ingested' = ingested \o ChunksOf(pdf_file, platform, pages, chunk_id + 1)
           /\ chunk_id' = chunk_id + Len(pages)
    /\ pdf_idx' = pdf_idx + 1
    /\ UNCHANGED <<folder, ipc, pdf_files>>
    /\ UNCHANGED outsideIngest

\* line 113
IngestReturn ==
    /\ ipc = "loop"
    /\ pdf_idx = Len(pdf_files)
    /\ ipc' = "done"
    /\ UNCHANGED <<folder, pdf_files, pdf_idx, chunk_id, ingested>>
    /\ UNCHANGED outsideIngest

NextIngest == IngestStart \/ IngestPdf \/ IngestReturn

----------------------------------------------------------------------------
(* The knowledge base file: save_knowledge_base (src/src/ingest.py),        *)
(* load_knowledge_base and the start of main (src/src/main.py).             *)
(*                                                                         *)
(* The file is missing or holds a sequence of bytes. The byte of an ASCII  *)
(* character is written as that character; Byte_FF is the byte 0xFF, which *)
(* no UTF-8 text holds.                                                    *)

Byte_FF == "xFF"

\* f.write through encoding="utf-8": an ASCII character is one byte
Utf8Encode(text) == text

\* f.read() through encoding="utf-8": UnicodeDecodeError on a byte that is
\* not UTF-8
Utf8Decode(bytes) ==
    [raised |-> \E i \in DOMAIN bytes : bytes[i] = Byte_FF, text |-> bytes]

\* The keys of a chunk dict in the order ingest_manuals inserts them, with
\* their spelling
ChunkKeys == <<"id", "text", "source", "page", "platform">>
KeySpelling ==
    [id |-> <<"i", "d">>, text |-> <<"t", "e", "x", "t">>,
     source |-> <<"s", "o", "u", "r", "c", "e">>, page |-> <<"p", "a", "g", "e">>,
     platform |-> <<"p", "l", "a", "t", "f", "o", "r", "m">>]

\* json: one character of a str, escaped
JsonEscape(c) ==
    IF c = "\"" THEN <<"\\", "\"">>
    ELSE IF c = "\\" THEN <<"\\", "\\">>
    ELSE IF c = "\n" THEN <<"\\", "n">>
    ELSE IF c = "\t" THEN <<"\\", "t">>
    ELSE <<c>>

RECURSIVE JsonEscapeAll(_)
JsonEscapeAll(str) ==
    IF str = <<>> THEN <<>> ELSE JsonEscape(str[1]) \o JsonEscapeAll(Tail(str))

\* json: a str as a JSON string
DumpStr(str) == <<"\"">> \o JsonEscapeAll(str) \o <<"\"">>

\* separator.join(parts)
RECURSIVE JoinWith(_, _)
JoinWith(separator, parts) ==
    IF parts = <<>> THEN <<>>
    ELSE IF Len(parts) = 1 THEN parts[1]
    ELSE parts[1] \o separator \o JoinWith(separator, Tail(parts))

\* The keys a chunk has, in insertion order
KeysOf(chunk) == SelectSeq(ChunkKeys, LAMBDA k : k \in DOMAIN chunk)

\* json, indent=2: one member of a chunk dict, at nesting level 2
DumpMember(chunk, k) ==
    <<" ", " ", " ", " ">> \o DumpStr(KeySpelling[k]) \o <<":", " ">> \o
        (IF k = "page" THEN IntStr(chunk[k]) ELSE DumpStr(chunk[k]))

\* json, indent=2: a chunk dict, at nesting level 1
DumpChunk(chunk) ==
    IF KeysOf(chunk) = <<>> THEN <<" ", " ", "{", "}">>
    ELSE <<" ", " ", "{", "\n">> \o
             JoinWith(<<",", "\n">>,
                      [i \in 1..Len(KeysOf(chunk)) |-> DumpMember(chunk, KeysOf(chunk)[i])])
             \o <<"\n", " ", " ", "}">>

\* json.dumps(kb, ensure_ascii=False, indent=2) for a list of chunk dicts
JsonDumps(kb) ==
    IF kb = <<>> THEN <<"[", "]">>
    ELSE <<"[", "\n">> \o JoinWith(<<",", "\n">>, [i \in 1..Len(kb) |-> DumpChunk(kb[i])])
             \o <<"\n", "]">>

\* The whitespace the JSON decoder skips
JsonWhitespace == {" ", "\t", "\n", "\r"}

RECURSIVE SkipWhitespace(_, _)
SkipWhitespace(t, i) ==
    IF i <= Len(t) /\ t[i] \in JsonWhitespace THEN SkipWhitespace(t, i + 1) ELSE i

\* The decoder found no value (json.JSONDecodeError)
NoValue == [ok |-> FALSE, kind |-> "none", val |-> <<>>, next |-> 0]

\* The characters of a str after its opening quote, up to the closing one
RECURSIVE ScanString(_, _, _)
ScanString(t, j, acc) ==
    IF j > Len(t) THEN NoValue
    ELSE IF t[j] = "\"" THEN [ok |-> TRUE, kind |-> "str", val |-> acc, next |-> j + 1]
    ELSE IF t[j] = "\\"
         THEN IF j + 1 > Len(t) THEN NoValue
              ELSE IF t[j + 1] \in {"\"", "\\", "/"}
                   THEN ScanString(t, j + 2, Append(acc, t[j + 1]))
              ELSE IF t[j + 1] = "n" THEN ScanString(t, j + 2, Append(acc, "\n"))
              ELSE IF t[j + 1] = "t" THEN ScanString(t, j + 2, Append(acc, "\t"))
              ELSE IF t[j + 1] = "r" THEN ScanString(t, j + 2, Append(acc, "\r"))
              ELSE NoValue
    ELSE IF t[j] \in {"\n", "\t", "\r"} THEN NoValue
    ELSE ScanString(t, j + 1, Append(acc, t[j]))

\* The value of a digit
DigitValue(c) == (CHOOSE k \in DOMAIN DigitChars : DigitChars[k] = c) - 1

RECURSIVE DigitsEnd(_, _)
DigitsEnd(t, j) == IF j <= Len(t) /\ t[j] \in Digits THEN DigitsEnd(t, j + 1) ELSE j

RECURSIVE IntOf(_)
IntOf(digits) ==
    IF digits = <<>> THEN 0
    ELSE 10 * IntOf(SubSeq(digits, 1, Len(digits) - 1)) + DigitValue(digits[Len(digits)])

\* An integer: -?(0|[1-9]\d*)
ScanInt(t, i) ==
    LET first == IF t[i] = "-" THEN i + 1 ELSE i
        last == IF first <= Len(t) /\ t[first] = "0" THEN first + 1 ELSE DigitsEnd(t, first)
    IN  IF last = first THEN NoValue
        ELSE [ok |-> TRUE, kind |-> "int",
              val |-> IF first = i THEN IntOf(SubSeq(t, first, last - 1))
                      ELSE 0 - IntOf(SubSeq(t, first, last - 1)),
              next |-> last]

\* The name of a key as a field
RECURSIVE FieldName(_)
FieldName(key) == IF key = <<>> THEN "" ELSE key[1] \o FieldName(Tail(key))

\* The dict of a list of <<key, value>> pairs: the last pair of a key wins
ObjectOf(pairs) ==
    [f \in {FieldName(pairs[i][1]) : i \in DOMAIN pairs} |->
        LET last == CHOOSE i \in DOMAIN pairs :
                        /\ FieldName(pairs[i][1]) = f
                        /\ \A j \in DOMAIN pairs : FieldName(pairs[j][1]) = f => j <= i
        IN  pairs[last][2]]

RECURSIVE ScanValue(_, _)
RECURSIVE ScanElements(_, _, _)
RECURSIVE ScanMembers(_, _, _)

\* The elements of an array from position j on, after `[`
ScanElements(t, j, acc) ==
    LET v == ScanValue(t, j)
        k == SkipWhitespace(t, v.next)
    IN  IF ~v.ok \/ k > Len(t) THEN NoValue
        ELSE IF t[k] = "]"
             THEN [ok |-> TRUE, kind |-> "list", val |-> Append(acc, v.val), next |-> k + 1]
        ELSE IF t[k] = ","
             THEN ScanElements(t, SkipWhitespace(t, k + 1), Append(acc, v.val))
        ELSE NoValue

\* The members of an object from position j on, after `{` or `,`
ScanMembers(t, j, acc) ==
    IF j > Len(t) \/ t[j] # "\"" THEN NoValue
    ELSE LET key == ScanString(t, j + 1, <<>>)
             colon == SkipWhitespace(t, key.next)
         IN  IF ~key.ok \/ colon > Len(t) \/ t[colon] # ":" THEN NoValue
             ELSE LET v == ScanValue(t, SkipWhitespace(t, colon + 1))
                      k == SkipWhitespace(t, v.next)
                      pairs == Append(acc, <<key.val, v.val>>)
                  IN  IF ~v.ok \/ k > Len(t) THEN NoValue
                      ELSE IF t[k] = "}"
                           THEN [ok |-> TRUE, kind |-> "dict", val |-> ObjectOf(pairs),
                                 next |-> k + 1]
                      ELSE IF t[k] = ","
                           THEN ScanMembers(t, SkipWhitespace(t, k + 1), pairs)
                      ELSE NoValue

\* The JSON value that starts at position i: a list, a dict, a str or an int
\* (the literals true, false, null and floats are in none of the files here)
ScanValue(t, i) ==
    IF i > Len(t) THEN NoValue
    ELSE IF t[i] = "\"" THEN ScanString(t, i + 1, <<>>)
    ELSE IF t[i] = "["
         THEN LET j == SkipWhitespace(t, i + 1)
              IN  IF j <= Len(t) /\ t[j] = "]"
                  THEN [ok |-> TRUE, kind |-> "list", val |-> <<>>, next |-> j + 1]
                  ELSE ScanElements(t, j, <<>>)
    ELSE IF t[i] = "{"
         THEN LET j == SkipWhitespace(t, i + 1)
              IN  IF j <= Len(t) /\ t[j] = "}"
                  THEN [ok |-> TRUE, kind |-> "dict", val |-> <<>>, next |-> j + 1]
                  ELSE ScanMembers(t, j, <<>>)
    ELSE IF t[i] = "-" \/ t[i] \in Digits THEN ScanInt(t, i)
    ELSE NoValue

\* json.loads(text): the value, or no value when the text is no JSON
\* document (a value with something but whitespace after it is none)
JsonLoads(text) ==
    LET v == ScanValue(text, SkipWhitespace(text, 1))
    IN  IF ~v.ok THEN NoValue
        ELSE IF SkipWhitespace(text, v.next) <= Len(text) THEN NoValue
        ELSE v

\* main.py lines 61-74: FileNotFoundError and json.JSONDecodeError give the
\* empty list; UnicodeDecodeError (from f.read) and TypeError (from len of
\* an int) are not caught
load_knowledge_base(file) ==
    IF ~file.exists THEN [raised |-> FALSE, kb |-> <<>>]
    ELSE LET decoded == Utf8Decode(file.bytes)
             loaded == JsonLoads(decoded.text)
         IN  IF decoded.raised THEN [raised |-> TRUE, kb |-> <<>>]
             ELSE IF ~loaded.ok THEN [raised |-> FALSE, kb |-> <<>>]
             ELSE IF loaded.kind = "int" THEN [raised |-> TRUE, kb |-> <<>>]
             ELSE [raised |-> FALSE, kb |-> loaded.val]

\* ingest.py lines 116-124: save_knowledge_base(kb, output_path), kb being
\* the list ingest_manuals returned
SaveKnowledgeBase ==
    /\ ipc = "done"
    /\ kb_file' = FileOf(Utf8Encode(JsonDumps(ingested)))
    /\ ipc' = "saved"
    /\ UNCHANGED <<folder, pdf_files, pdf_idx, chunk_id, ingested>>
    /\ UNCHANGED <<searchVars, callVars, formatVars, detectVars, loopVars>>

\* main.py lines 290-307: load the knowledge base; leave when it is empty,
\* else enter the chat loop
MainStart ==
    /\ mpc = "start"
    /\ LET loaded == load_knowledge_base(kb_file)
       IN  IF loaded.raised
           THEN /\ mpc' = "raised"
                /\ printed' = Printed("traceback", <<>>)
                /\ UNCHANGED knowledge_base
           ELSE IF loaded.kb = <<>>
                THEN /\ mpc' = "ended"
                     /\ printed' = Printed("fatal", <<>>)
                     /\ UNCHANGED knowledge_base
           ELSE /\ mpc' = "running"
                /\ printed' = Printed("ready", <<>>)
                /\ knowledge_base' = loaded.kb
    /\ UNCHANGED <<turns, user_input, last_chunks, requests>>
    /\ UNCHANGED <<query, top_k, pc, query_tokens, idx, score, scored_chunks, result>>
    /\ UNCHANGED <<callVars, formatVars, detectVars, ingestVars, fileVars>>

----------------------------------------------------------------------------
(* Inputs *)

MaxKB == 3          \* chunks in a ranked corpus
MaxTopK == 2        \* largest top_k of a ranking call
MaxQueryLen == 12   \* characters of a scored query
MaxTextLen == 9     \* characters of a scored chunk text
MaxTokenQueryLen == 12  \* characters of a tokenized query
MaxCalls == 2       \* retrieval calls running at the same time
MaxSharedKB == 2    \* chunks in the corpus they share
MaxChunks == 3      \* chunks handed to format_context
MaxContextTextLen == 802  \* characters of the longest text handed to it
MaxFilenameLen == 11  \* characters of a filename handed to detect_platform

s_AH1 == <<"A", "H", "-", "1">>
s_UH1 == <<"U", "H", "-", "1">>
s_uh1 == <<"u", "h", "-", "1">>
s_RC12 == <<"R", "C", "-", "1", "2">>
s_c12 == <<"c", "-", "1", "2">>
s_M1 == <<"M", "1">>
s_m1 == <<"m", "1">>
s_m1a == <<"m", "1", "a">>
s_to == <<"t", "o">>
s_oil == <<"o", "i", "l">>
s_Oil == <<"O", "i", "l">>
s_boil == <<"b", "o", "i", "l">>
s_hp == <<"h", "p">>
s_ft == <<"f", "t">>

\* format_context not called
IdleFormat ==
    /\ chunks = <<>>
    /\ fpc = "idle"
    /\ context_parts = <<>>
    /\ context = <<>>

\* detect_platform not called
IdleDetect ==
    /\ filename = <<>>
    /\ dpc = "idle"
    /\ pattern_idx = 0
    /\ detected = <<>>

\* main not running
IdleLoop ==
    /\ mpc = "idle"
    /\ turns = 0
    /\ user_input = <<>>
    /\ last_chunks = <<>>
    /\ printed = [kind |-> "nothing", about |-> <<>>]
    /\ requests = <<>>

\* ingest_manuals not called, no knowledge base file written
IdleIngest ==
    /\ folder = [is_dir |-> FALSE, files |-> <<>>]
    /\ ipc = "idle"
    /\ pdf_files = <<>>
    /\ pdf_idx = 0
    /\ chunk_id = 0
    /\ ingested = <<>>
    /\ kb_file = NoFile

InitLocals ==
    /\ pc = "start"
    /\ query_tokens = <<>>
    /\ idx = 0
    /\ score = 0
    /\ scored_chunks = <<>>
    /\ result = <<>>
    /\ calls = <<>>
    /\ IdleFormat
    /\ IdleDetect
    /\ IdleLoop
    /\ IdleIngest

\* Ranking calls: a few queries over every corpus of up to MaxKB chunks
RankQueries ==
    { <<>>, <<" ", " ">>, s_to, JoinSpace(<<s_to, s_to>>), s_oil,
      JoinSpace(<<s_AH1, s_oil>>), JoinSpace(<<s_AH1, s_uh1, s_oil>>) }

RankPlatforms == {s_UNKNOWN, s_AH1, s_UH1}

RankChunks ==
    {[text |-> t, platform |-> p] :
        t \in {s_oil, JoinSpace(<<s_oil, s_oil, s_oil>>)}, p \in RankPlatforms}
      \cup {[platform |-> s_AH1], [text |-> <<>>, platform |-> s_AH1]}

Init ==
    /\ query \in RankQueries
    /\ knowledge_base \in UNION {[1..n -> RankChunks] : n \in 0..MaxKB}
    /\ top_k \in 0..MaxTopK
    /\ InitLocals

Spec == Init /\ [][Next]_vars

\* Every " ".join of words from Words that has at most maxLen characters
RECURSIVE JoinsUpTo(_, _, _)
JoinsUpTo(Words, maxLen, n) ==
    IF n = 0 THEN {<<>>}
    ELSE LET shorter == JoinsUpTo(Words, maxLen, n - 1)
             longer == {IF t = <<>> THEN w ELSE t \o <<" ">> \o w :
                           t \in shorter, w \in Words}
         IN  shorter \cup {s \in longer : Len(s) <= maxLen}

\* Scoring calls on the text: every short query against every short text,
\* in a chunk tagged AH-1 or with no platform key
QueryWords == {s_oil, s_hp, s_ft, s_m1, s_AH1, s_c12}
TextWords == {s_Oil, s_boil, s_hp, s_m1, s_m1a}

Queries == JoinsUpTo(QueryWords, MaxQueryLen, MaxQueryLen)
Texts == JoinsUpTo(TextWords, MaxTextLen, MaxTextLen)

TextChunks ==
    {[text |-> t, platform |-> s_AH1] : t \in Texts} \cup {[text |-> t] : t \in Texts}

\* Scoring calls on the platform: every short query that names platforms
\* against a chunk of every tag of the pattern table, UNKNOWN, or no platform key
PlatformTags ==
    { s_AH1, s_RC12, <<"R", "D", "-", "1", "2">>, <<"C", "-", "1", "2">>, s_UH1,
      <<"E", "H", "-", "1">>, <<"O", "H", "-", "5", "8">>, <<"U", "H", "-", "6", "0">>,
      <<"C", "H", "-", "4", "7">>, s_M1, <<"M", "2">>, <<"H", "M", "M", "W", "V">> }

PlatformQueryWords == {s_oil, s_m1, s_AH1, s_uh1, s_c12, <<"r", "c", "-", "1", "2">>}

PlatformQueries == JoinsUpTo(PlatformQueryWords, MaxQueryLen, MaxQueryLen)

PlatformChunks ==
    {[text |-> t, platform |-> p] : t \in {s_Oil, s_m1}, p \in PlatformTags \cup {s_UNKNOWN}}
      \cup {[text |-> s_Oil]}

\* Scoring calls on the phrase alone: queries whose phrase stands in a text
\* in which none of their tokens stands as a whole word
PhraseQueries == { <<"o", "i", "l", " ", "h", "p">>, <<"A", "H", "-", "1", " ", "o", "i", "l", " ", "h", "p">>, <<"h", "p", " ", "o", "i", "l", " ", "f", "t">> }

PhraseChunks ==
    {[text |-> t, platform |-> p] :
        t \in { <<"b", "o", "i", "l", " ", "h", "p", "s">>, <<"p", "h", "p", " ", "o", "i", "l", " ", "f", "t", "s">> },
        p \in {s_AH1, s_UH1, s_UNKNOWN}}

InitScore ==
    /\ \/ query \in Queries /\ \E c \in TextChunks : knowledge_base = <<c>>
       \/ query \in PlatformQueries /\ \E c \in PlatformChunks : knowledge_base = <<c>>
       \/ query \in PhraseQueries /\ \E c \in PhraseChunks : knowledge_base = <<c>>
    /\ top_k = TOP_K_CHUNKS
    /\ InitLocals

SpecScore == InitScore /\ [][Next]_vars

\* Tokenizing calls: every short query made of words that are platform-shaped
\* (with each separator, in either case, inside a longer word), stopwords,
\* single characters, bare letter runs and digit runs, and plain words,
\* against a one-chunk corpus
TokenWords ==
    { s_AH1, <<"o", "h", "_", "5", "8">>, <<"R", "c", "1", "2">>, <<"a", "b", "c", "1">>,
      <<"o", "h">>, <<"5", "8">>, <<"1">>, <<"a">>, s_to, <<"T", "o">>, s_oil, s_Oil,
      <<"o", "i", "l", ",">>, <<"x", "-", "y", "2">> }

s_AH1_oil_pressure ==
    JoinSpace(<<s_AH1, s_oil, <<"p", "r", "e", "s", "s", "u", "r", "e">> >>)

TokenQueries ==
    JoinsUpTo(TokenWords, MaxTokenQueryLen, (MaxTokenQueryLen + 1) \div 2)
        \cup {s_AH1_oil_pressure}

InitTokens ==
    /\ query \in TokenQueries
    /\ knowledge_base = <<[text |-> s_oil, platform |-> s_AH1]>>
    /\ top_k = TOP_K_CHUNKS
    /\ InitLocals

SpecTokens == InitTokens /\ [][Next]_vars

\* No single call in progress
IdleSearch ==
    /\ query = <<>>
    /\ top_k = 0
    /\ pc = "idle"
    /\ query_tokens = <<>>
    /\ idx = 0
    /\ score = 0
    /\ scored_chunks = <<>>
    /\ result = <<>>

\* Calls at the same time: up to MaxCalls calls, each with its own query and
\* top_k, over one corpus of up to MaxSharedKB chunks
SharedQueries == {s_oil, JoinSpace(<<s_AH1, s_oil>>)}

SharedChunks ==
    { [text |-> s_oil, platform |-> s_AH1],
      [text |-> JoinSpace(<<s_oil, s_oil, s_oil>>), platform |-> s_UNKNOWN] }

InitCalls ==
    /\ knowledge_base \in UNION {[1..n -> SharedChunks] : n \in 1..MaxSharedKB}
    /\ calls \in UNION {[1..n -> {Frame(q, k) : q \in SharedQueries, k \in {1, TOP_K_CHUNKS}}] :
                            n \in 1..MaxCalls}
    /\ IdleSearch
    /\ IdleFormat
    /\ IdleDetect
    /\ IdleLoop
    /\ IdleIngest

SpecCalls == InitCalls /\ [][NextCalls]_vars

\* format_context calls: chunk lists of up to MaxChunks chunks whose texts
\* are absent, empty, short, or of every length from 799 to MaxContextTextLen
\* (words of three letters, so that the cut at 800 falls inside a word), with
\* source or page present or absent
TextCycle == <<"i", "l", " ", "o">>

LongText(n) == [i \in 1..n |-> TextCycle[((i - 1) % 4) + 1]]

ContextTexts == {<<>>, s_oil} \cup {LongText(n) : n \in 799..MaxContextTextLen}

s_A == <<"A">>
s_B == <<"B", ".", "p", "d", "f">>

ContextChunks ==
    {[text |-> t, source |-> s_A, page |-> 7] : t \in ContextTexts}
      \cup { [text |-> s_hp], [text |-> s_hp, source |-> s_B],
             [text |-> s_hp, page |-> 12], [source |-> s_B, page |-> 12],
             [text |-> s_hp, source |-> s_B, page |-> 12] }

InitFormat ==
    /\ chunks \in UNION {[1..n -> ContextChunks] : n \in 0..MaxChunks}
    /\ fpc = "start"
    /\ context_parts = <<>>
    /\ context = <<>>
    /\ knowledge_base = <<>>
    /\ IdleSearch
    /\ calls = <<>>
    /\ IdleDetect
    /\ IdleLoop
    /\ IdleIngest

SpecFormat == InitFormat /\ [][NextFormat]_vars

\* detect_platform calls: every filename of up to MaxFilenameLen characters
\* made of the canonical tags, of forms of them with another separator or
\* none and in other letter cases, and of words that are no platform
CanonicalWords ==
    {PLATFORM_PATTERNS[k].tag : k \in DOMAIN PLATFORM_PATTERNS}

VariantWords ==
    {
      <<"a", "h", "_", "1">>, <<"A", "H", "1">>, <<"r", "c", "1", "2">>,
      <<"c", "_", "1", "2">>, <<"U", "h", "1">>, <<"o", "h", "_", "5", "8">>,
      <<"u", "H", "_", "6", "0">>, <<"M", "-", "1">>, <<"m", "_", "2">>, <<"m", "1">>,
      <<"h", "u", "m", "v", "e", "e">>, <<"o", "i", "l">>, <<"M", "1", "A">>,
      <<"x", "C", "-", "1", "2">>
    }

Filenames ==
    JoinsUpTo(CanonicalWords \cup VariantWords, MaxFilenameLen, (MaxFilenameLen + 1) \div 2)

InitDetect ==
    /\ filename \in Filenames
    /\ dpc = "loop"
    /\ pattern_idx = 0
    /\ detected = <<>>
    /\ knowledge_base = <<>>
    /\ IdleSearch
    /\ calls = <<>>
    /\ IdleFormat
    /\ IdleLoop
    /\ IdleIngest

SpecDetect == InitDetect /\ [][NextDetect]_vars

\* The chat loop: up to MaxTurns lines, each one blank, a command (with
\* spaces around it, in another letter case), a question about a platform of
\* the corpus, a question that holds one or several entries of the
\* unsupported list, or a question of stopwords only, over a loaded corpus
RawInputs ==
    {
      <<>>, <<" ", " ">>, <<"/", "q", "u", "i", "t">>, <<" ", "/", "H", "E", "L", "P">>,
      <<"/", "s", "t", "a", "t", "u", "s", " ">>,
      <<"/", "s", "o", "u", "r", "c", "e", "s">>, <<"o", "i", "l">>,
      <<"A", "H", "-", "1", " ", "o", "i", "l">>,
      <<"F", "-", "1", "6", " ", "o", "i", "l">>,
      <<"o", "i", "l", " ", "t", "a", "n", "k">>, <<"o", "i", "l", " ", "t", "a", "n", "k", " ", "M", "i", "G">>,
      <<"S", "u", "-", "2", "7", " ", "M", "i", "G">>,
      <<"/", "h", "e", "l", "p", " ", "b", "-", "1">>,
      <<"m", "1", " ", "a", "b", "r", "a", "m", "s", " ", "t", "a", "n", "k">>,
      <<"t", "o">>
    }

s_manual == <<"A", "H", "-", "1", ".", "p", "d", "f">>

LoopCorpora ==
    { << [text |-> JoinSpace(<<s_oil, s_oil, s_oil>>), source |-> s_manual,
          page |-> 7, platform |-> s_AH1] >>,
      << [text |-> s_boil, source |-> s_manual, page |-> 7, platform |-> s_AH1],
         [text |-> JoinSpace(<<s_oil, s_oil, s_oil>>), source |-> s_manual,
          page |-> 8, platform |-> s_UNKNOWN] >>,
      << [text |-> JoinSpace(<<s_oil, s_oil, s_oil>>), source |-> s_manual,
          page |-> 7, platform |-> s_AH1],
         [source |-> s_manual, page |-> 8, platform |-> s_AH1] >>,
      << [text |-> JoinSpace(<<s_oil, s_oil, s_oil>>), page |-> 7, platform |-> s_AH1] >> }

InitLoop ==
    /\ knowledge_base \in LoopCorpora
    /\ mpc = "running"
    /\ turns = 0
    /\ user_input = <<>>
    /\ last_chunks = <<>>
    /\ printed = Printed("nothing", <<>>)
    /\ requests = <<>>
    /\ IdleSearch
    /\ calls = <<>>
    /\ IdleFormat
    /\ IdleDetect
    /\ IdleIngest

NextLoop ==
    \/ ReadInterrupted
    \/ \E raw \in RawInputs :
           Blank(raw) \/ Quit(raw) \/ Help(raw) \/ Status(raw) \/ Sources(raw) \/ Ask(raw)

SpecLoop == InitLoop /\ [][NextLoop]_vars

\* Ingestion runs: a folder that is missing, or one that lists up to
\* MaxFolderFiles files, in any order, out of: PDFs whose pages are blank,
\* hold runs of whitespace, or hold text; a PDF that fitz cannot open; a PDF
\* that fitz fails on after two pages; a file that is not a PDF
MaxFolderFiles == 3

s_AH1_pdf == <<"A", "H", "-", "1", ".", "p", "d", "f">>
s_uh60_PDF == <<"u", "h", "_", "6", "0", ".", "P", "D", "F">>
s_M1_pdf == <<"M", "1", ".", "p", "d", "f">>
s_bad_pdf == <<"b", "a", "d", ".", "p", "d", "f">>
s_notes_txt == <<"n", "o", "t", "e", "s", ".", "t", "x", "t">>

FolderFiles ==
    { [name |-> s_AH1_pdf, broken |-> FALSE, readable |-> 0,
       pages |-> << <<" ", "o", "i", "l", " ", "\n", "\t", "h", "p", "\n">>, <<>>, s_ft >>],
      [name |-> s_uh60_PDF, broken |-> FALSE, readable |-> 0,
       pages |-> << <<"\n", " ">>, <<"o", "i", "l", " ", " ", "h", "p">> >>],
      [name |-> s_M1_pdf, broken |-> TRUE, readable |-> 2,
       pages |-> << s_hp, <<"\t">>, s_oil >>],
      [name |-> s_bad_pdf, broken |-> TRUE, readable |-> 0, pages |-> << s_oil >>],
      [name |-> s_notes_txt, broken |-> FALSE, readable |-> 0, pages |-> << s_oil >>] }

\* The listings os.listdir can give: distinct files, in any order
Listings ==
    {l \in UNION {[1..n -> FolderFiles] : n \in 0..MaxFolderFiles} :
        \A i, j \in DOMAIN l : i # j => l[i] # l[j]}

InitIngest ==
    /\ \/ folder = [is_dir |-> FALSE, files |-> <<>>]
       \/ \E l \in Listings : folder = [is_dir |-> TRUE, files |-> l]
    /\ ipc = "start"
    /\ pdf_files = <<>>
    /\ pdf_idx = 0
    /\ chunk_id = 0
    /\ ingested = <<>>
    /\ kb_file = NoFile
    /\ knowledge_base = <<>>
    /\ IdleSearch
    /\ calls = <<>>
    /\ IdleFormat
    /\ IdleDetect
    /\ IdleLoop

SpecIngest == InitIngest /\ [][NextIngest]_vars


\* Knowledge base files and starts of main: ingestion has returned a list
\* of up to MaxStoredChunks chunks (one of them with a quote and a backslash
\* in its text and in its file name), and the file is missing or holds
\* something that is no JSON document: nothing, text that is no JSON, a
\* list cut short, a list with a comma before its end, a list with text
\* after it, or a list holding a byte that is not UTF-8
MaxStoredChunks == 2

s_quoted_pdf == <<"a", "\"", "b", "\\", ".", "p", "d", "f">>

StoredPages ==
    { <<s_AH1_pdf, <<1, JoinSpace(<<s_oil, s_oil, s_oil>>)>>>>,
      <<s_AH1_pdf, <<12, s_boil>>>>,
      <<s_quoted_pdf, <<3, <<"5", "\"", " ", "o", "i", "l", "\\", "h", "p">>>>>> }

\* The list ingest_manuals returns for pages kept from PDFs of one page each
StoredKB(pages) ==
    [i \in 1..Len(pages) |->
        ChunksOf(pages[i][1], detect_platform(pages[i][1]), <<pages[i][2]>>, i)[1]]

StoredKBs ==
    {StoredKB(pages) : pages \in UNION {[1..n -> StoredPages] : n \in 0..MaxStoredChunks}}

InvalidFiles ==
    { <<>>,
      <<"{", " ", "i", "n", "v", "a", "l", "i", "d", " ", "j", "s", "o", "n", " ", "}">>,
      <<"[">>,
      <<"[", "{", "\"", "i", "d", "\"", ":", " ", "\"", "d", "o", "c", "1", "_", "p", "1", "\"", "}", ",", "]">>,
      <<"[", "{", "\"", "i", "d", "\"", ":", " ", "\"", "d", "o", "c", "1", "_", "p", "1", "\"">>,
      <<"[", "]", " ", "x">>,
      <<"[", "\"", Byte_FF, "\"", "]">>,
      <<"{", "\"", "i", "d", "\"", ":", " ", "\"", "d", "o", "c", "1", "_", "p", "1", "\"", ",", " ", "\"", "p", "a", "g", "e", "\"", ":", " ", "0", "1", "}">> }

InitStore ==
    /\ ingested \in StoredKBs
    /\ kb_file \in {NoFile} \cup {FileOf(bytes) : bytes \in InvalidFiles}
    /\ ipc = "done"
    /\ folder = [is_dir |-> TRUE, files |-> <<>>]
    /\ pdf_files = <<>>
    /\ pdf_idx = 0
    /\ chunk_id = Len(ingested)
    /\ mpc = "start"
    /\ knowledge_base = <<>>
    /\ turns = 0
    /\ user_input = <<>>
    /\ last_chunks = <<>>
    /\ printed = Printed("nothing", <<>>)
    /\ requests = <<>>
    /\ IdleSearch
    /\ calls = <<>>
    /\ IdleFormat
    /\ IdleDetect

NextStore == SaveKnowledgeBase \/ MainStart \/ NextLoop

SpecStore == InitStore /\ [][NextStore]_vars

----------------------------------------------------------------------------
(* Properties of ranking, checked under Spec *)

\* The words of s between spaces
RECURSIVE SplitSpace(_)
SplitSpace(s) ==
    IF s = <<>> THEN <<>>
    ELSE IF Head(s) = " " THEN SplitSpace(Tail(s))
    ELSE LET n == CHOOSE k \in 1..Len(s) :
                     /\ \A j \in 1..k : s[j] # " "
                     /\ (k = Len(s) \/ s[k + 1] = " ")
         IN  <<SubSeq(s, 1, n)>> \o SplitSpace(SubSeq(s, n + 1, Len(s)))

\* The query is empty, whitespace-only or made only of stopwords
OnlyStopwords(q) ==
    \A k \in DOMAIN SplitSpace(q) : Lower(SplitSpace(q)[k]) \in STOPWORDS

Returned == pc = "done"

\* The final score of the chunk at corpus position i
ScoreAt(i) == ChunkScore(query_tokens, Lower(query), knowledge_base[i])

Candidates == {i \in DOMAIN knowledge_base : ScoreAt(i) >= MIN_SCORE}

InResult(i) == \E k \in DOMAIN result : result[k] = i

RankOf(i) == CHOOSE k \in DOMAIN result : result[k] = i

Min(a, b) == IF a < b THEN a ELSE b

\* C1: for a query whose token list is empty (the empty string, whitespace
\* only, only stopwords), the search returns the empty list, whatever the
\* corpus and top_k, and no chunk is fetched or scored.
C1_EmptyTokensReturnEmpty ==
    /\ (pc # "start" /\ tokenize_query(query) = <<>>) =>
           /\ pc = "done"
           /\ result = <<>>
           /\ idx = 0
           /\ scored_chunks = <<>>
    /\ (pc # "start" /\ OnlyStopwords(query)) => query_tokens = <<>>

\* A stopword-only query has returned over a full corpus that holds a chunk
\* without text, which scoring would have raised on
C1_Witness ==
    /\ Returned
    /\ query = JoinSpace(<<s_to, s_to>>)
    /\ Len(knowledge_base) = MaxKB
    /\ \E i \in DOMAIN knowledge_base : "text" \notin DOMAIN knowledge_base[i]
    /\ \E i \in DOMAIN knowledge_base : "text" \in DOMAIN knowledge_base[i]
    /\ top_k > 0
    /\ result = <<>>

\* C2: the search returns at most top_k chunks, each one a chunk of the
\* corpus, and no corpus position twice.
C2_BoundedDistinctFromCorpus ==
    Returned =>
        /\ Len(result) <= top_k
        /\ \A k \in DOMAIN result : result[k] \in DOMAIN knowledge_base
        /\ \A k, m \in DOMAIN result : k # m => result[k] # result[m]

\* The result is cut at top_k >= 2 with more candidates than top_k
C2_Witness ==
    /\ Returned
    /\ top_k >= 2
    /\ Len(result) = top_k
    /\ Len(scored_chunks) > top_k

\* C3: for a non-empty token list the result is the first top_k of the
\* chunks scoring at least 3, by score descending: every returned chunk
\* scores at least 3, scores do not increase along the result, no chunk left
\* out scores strictly higher than a returned one, and the result is empty
\* exactly when top_k is 0 or no chunk reaches 3.
C3_TopCandidatesByScore ==
    (Returned /\ query_tokens # <<>>) =>
        /\ Len(result) = Min(top_k, Cardinality(Candidates))
        /\ \A k \in DOMAIN result : result[k] \in Candidates
        /\ \A k, m \in DOMAIN result : k < m => ScoreAt(result[k]) >= ScoreAt(result[m])
        /\ \A i \in Candidates : \A k \in DOMAIN result :
               ~InResult(i) => ScoreAt(i) <= ScoreAt(result[k])

\* Of two candidates the later one in the corpus scores higher and is the
\* one returned under top_k = 1; a third chunk is below the threshold
C3_Witness ==
    /\ Returned
    /\ query_tokens # <<>>
    /\ top_k = 1
    /\ Len(result) = 1
    /\ Cardinality(Candidates) = 2
    /\ Len(knowledge_base) = 3
    /\ \E i \in Candidates : i < result[1] /\ ScoreAt(i) < ScoreAt(result[1])

\* C4: ties in score keep corpus order: candidates of equal score stand in
\* the sorted list, and in the result, in corpus order, and when top_k cuts
\* through chunks of equal score the ones kept have the earliest positions.
C4_TiesKeepCorpusOrder ==
    Returned =>
        /\ \A k, m \in DOMAIN scored_chunks :
               (k < m /\ scored_chunks[k][1] = scored_chunks[m][1])
                   => scored_chunks[k][2] < scored_chunks[m][2]
        /\ \A k, m \in DOMAIN result :
               (k < m /\ ScoreAt(result[k]) = ScoreAt(result[m])) => result[k] < result[m]
        /\ \A i \in Candidates : \A k \in DOMAIN result :
               (~InResult(i) /\ ScoreAt(i) = ScoreAt(result[k])) => result[k] < i

\* top_k cuts through three candidates of equal score
C4_Witness ==
    /\ Returned
    /\ query_tokens # <<>>
    /\ Len(result) = 2
    /\ ScoreAt(result[1]) = ScoreAt(result[2])
    /\ \E i \in Candidates : ~InResult(i) /\ ScoreAt(i) = ScoreAt(result[2])

\* The query names the platform with tag p: the lowercased tag is a substring
\* of the lowercased query
Names(q, p) == p # s_UNKNOWN /\ Contains(Lower(q), Lower(p))

\* Chunks a and b have the same keyword total and the same phrase outcome
SameKeywordMatch(a, b) ==
    /\ KeywordScore(query_tokens, Lower(knowledge_base[a].text))
         = KeywordScore(query_tokens, Lower(knowledge_base[b].text))
    /\ PhraseScore(query_tokens, Lower(knowledge_base[a].text))
         = PhraseScore(query_tokens, Lower(knowledge_base[b].text))

\* C5 as claimed: when the query names platform P, a chunk A tagged P stands
\* before every returned chunk B of another tag (or UNKNOWN) with the same
\* keyword total and phrase outcome, whatever their corpus order.
C5_SamePlatformAlwaysFirst ==
    (Returned /\ query_tokens # <<>>) =>
        \A a, b \in DOMAIN knowledge_base :
            ( /\ Names(query, ChunkPlatform(knowledge_base[a]))
              /\ ChunkPlatform(knowledge_base[b]) # ChunkPlatform(knowledge_base[a])
              /\ SameKeywordMatch(a, b)
              /\ InResult(b) )
            => (InResult(a) /\ RankOf(a) < RankOf(b))

\* C5 amended: the same, for every B whose own tag the query does not name
\* (B is UNKNOWN, or its lowercased tag is no substring of the query).
C5_SamePlatformBeforeUnnamed ==
    (Returned /\ query_tokens # <<>>) =>
        \A a, b \in DOMAIN knowledge_base :
            ( /\ Names(query, ChunkPlatform(knowledge_base[a]))
              /\ ~Names(query, ChunkPlatform(knowledge_base[b]))
              /\ SameKeywordMatch(a, b)
              /\ InResult(b) )
            => (InResult(a) /\ RankOf(a) < RankOf(b))

\* An off-platform chunk B precedes the same-platform chunk A in the corpus,
\* both match the keywords equally, both are returned, A first
C5_Witness ==
    /\ Returned
    /\ \E a, b \in DOMAIN knowledge_base :
           /\ b < a
           /\ Names(query, ChunkPlatform(knowledge_base[a]))
           /\ ~Names(query, ChunkPlatform(knowledge_base[b]))
           /\ SameKeywordMatch(a, b)
           /\ InResult(a) /\ InResult(b)
           /\ RankOf(a) < RankOf(b)

\* C10 as claimed: a chunk whose text is absent or empty never makes the
\* search raise and is never returned.
C10_TextlessChunkHarmless ==
    /\ pc # "raised"
    /\ Returned =>
           \A k \in DOMAIN result :
               /\ "text" \in DOMAIN knowledge_base[result[k]]
               /\ knowledge_base[result[k]].text # <<>>

----------------------------------------------------------------------------
(* Properties of scoring, checked under SpecScore *)

\* An iteration of the chunk loop has just ended: `score` holds the final
\* score of the chunk fetched last
LastScored == idx >= 1 /\ pc = "loop"

LastChunk == knowledge_base[idx]

LastText == Lower(LastChunk.text)

\* The three terms of the last score, each as what is left of `score` once
\* the other two are taken away
KeywordTerm ==
    score - PlatformScore(ChunkPlatform(LastChunk), Lower(query))
          - PhraseScore(query_tokens, LastText)

PlatformTerm ==
    score - KeywordScore(query_tokens, LastText) - PhraseScore(query_tokens, LastText)

PhraseTerm ==
    score - KeywordScore(query_tokens, LastText)
          - PlatformScore(ChunkPlatform(LastChunk), Lower(query))

\* The places where a word can be added to a text without touching a word
\* of it: the start, the end, and after each space
GapPositions(text) == {0, Len(text)} \cup {p \in 1..Len(text) : text[p] = " "}

\* text with the word w added at gap p, set off by single spaces
InsertWord(text, p, w) ==
    LET before == SubSeq(text, 1, p)
        after == SubSeq(text, p + 1, Len(text))
    IN  before
        \o (IF before = <<>> \/ before[Len(before)] = " " THEN <<>> ELSE <<" ">>)
        \o w
        \o (IF after = <<>> \/ after[1] = " " THEN <<>> ELSE <<" ">>)
        \o after

\* The score of the last chunk with its text replaced
ScoreWithText(text) ==
    ChunkScore(query_tokens, Lower(query), [LastChunk EXCEPT !.text = text])

\* C6 as claimed: one more whole-word occurrence of a query token, added to
\* the chunk text at any gap, never decreases the chunk's score.
C6_AddedOccurrenceNeverLowers ==
    LastScored =>
        \A k \in DOMAIN query_tokens : \A p \in GapPositions(LastChunk.text) :
            ScoreWithText(InsertWord(LastChunk.text, p, query_tokens[k])) >= score

\* C6 amended: one more whole-word occurrence of a query token, added to the
\* chunk text at any gap, never decreases the chunk's score provided the
\* text still holds the query phrase if it did before; when the phrase is
\* lost the score drops by at most 4.
C6_AddedOccurrenceKeepingPhrase ==
    LastScored =>
        \A k \in DOMAIN query_tokens : \A p \in GapPositions(LastChunk.text) :
            LET added == InsertWord(LastChunk.text, p, query_tokens[k])
                after == ScoreWithText(added)
            IN  /\ PhraseScore(query_tokens, Lower(added)) >= PhraseScore(query_tokens, LastText)
                       => after >= score
                /\ after >= score - 4

\* A token is added inside a text that holds the phrase, between two words,
\* the phrase survives and the score grows
C6_Witness ==
    /\ LastScored
    /\ PhraseScore(query_tokens, LastText) = 5
    /\ \E k \in DOMAIN query_tokens : \E p \in GapPositions(LastChunk.text) :
           LET added == InsertWord(LastChunk.text, p, query_tokens[k])
           IN  /\ 0 < p /\ p < Len(LastChunk.text)
               /\ PhraseScore(query_tokens, Lower(added)) = 5
               /\ ScoreWithText(added) > score

\* Positions of s where token stands as a whole word: no word character
\* directly before it and none directly after it
WholeWordPositions(s, token) ==
    {i \in 1..Len(s) :
        /\ i + Len(token) - 1 <= Len(s)
        /\ \A j \in 1..Len(token) : s[i + j - 1] = token[j]
        /\ (i = 1 \/ ~IsWordChar(s[i - 1]))
        /\ (i + Len(token) - 1 = Len(s) \/ ~IsWordChar(s[i + Len(token)]))}

\* Positions of s where token stands, inside a longer word or not
SubstringPositions(s, token) ==
    {i \in 1..Len(s) :
        /\ i + Len(token) - 1 <= Len(s)
        /\ \A j \in 1..Len(token) : s[i + j - 1] = token[j]}

RECURSIVE SumOfWholeWordCounts(_, _, _)
SumOfWholeWordCounts(tokens, n, s) ==
    IF n = 0 THEN 0
    ELSE Cardinality(WholeWordPositions(s, tokens[n])) + SumOfWholeWordCounts(tokens, n - 1, s)

\* C7: the keyword term of a score is the sum over the query tokens of the
\* whole-word occurrences of the token in the lowercased text: an occurrence
\* inside a longer word adds nothing, each whole-word repetition adds 1.
C7_KeywordTermCountsWholeWords ==
    LastScored =>
        KeywordTerm = SumOfWholeWordCounts(query_tokens, Len(query_tokens), LastText)

\* A token stands twice as a whole word and once inside a longer word
C7_Witness ==
    /\ LastScored
    /\ \E k \in DOMAIN query_tokens :
           /\ Cardinality(WholeWordPositions(LastText, query_tokens[k])) = 2
           /\ Cardinality(SubstringPositions(LastText, query_tokens[k])) = 3
    /\ KeywordTerm = 2

\* The forms of the fixed list that the query holds and the tag does not
MismatchingForms(tag, query_lower) ==
    {k \in DOMAIN PenaltyForms :
        Contains(query_lower, PenaltyForms[k]) /\ ~Contains(Lower(tag), PenaltyForms[k])}

PhraseOfFirstThree(tokens) ==
    IF Len(tokens) = 2 THEN tokens[1] \o <<" ">> \o tokens[2]
    ELSE tokens[1] \o <<" ">> \o tokens[2] \o <<" ">> \o tokens[3]

\* C9: the phrase term of a score is +5 iff the query has at least two
\* tokens and its first three tokens (both when there are two), joined by
\* single spaces, are a substring of the lowercased text; 0 otherwise, so 0
\* for a one-token query, and never more than one +5.
C9_PhraseTermIsFirstThreeTokens ==
    LastScored =>
        /\ PhraseTerm \in {0, 5}
        /\ PhraseTerm = 5 <=>
               (Len(query_tokens) >= 2 /\ Contains(LastText, PhraseOfFirstThree(query_tokens)))

\* A four-token query: the text holds the first three tokens as a phrase,
\* twice, and not the fourth
C9_Witness ==
    /\ LastScored
    /\ Len(query_tokens) = 4
    /\ PhraseTerm = 5
    /\ ~Contains(LastText, query_tokens[4])

----------------------------------------------------------------------------
(* Properties of tokenize_query, checked under SpecTokens *)

Tokenized == pc # "start"

\* t has the platform shape: one or two lowercase letters, an optional
\* hyphen or underscore, one or two digits, and nothing else
IsPlatformShaped(t) ==
    \E nl \in 1..2, ns \in 0..1, nd \in 1..2 :
        /\ Len(t) = nl + ns + nd
        /\ \A j \in 1..nl : t[j] \in LowerSet
        /\ ns = 1 => t[nl + 1] \in {"-", "_"}
        /\ \A j \in (nl + ns + 1)..Len(t) : t[j] \in Digits

\* The letters a platform-shaped token starts with, the digits it ends with
LetterRun(t) == SelectSeq(t, LAMBDA c : c \in LowerSet)
DigitRun(t) == SelectSeq(t, LAMBDA c : c \in Digits)

TokenSet == Range(query_tokens)

\* C11: the token list holds no value twice, only lowercase tokens, no
\* stopword, no token of length <= 1, and for every platform-shaped token in
\* it neither the token's letter run nor its digit run.
C11_TokenListInvariants ==
    Tokenized =>
        /\ \A i, j \in DOMAIN query_tokens : i # j => query_tokens[i] # query_tokens[j]
        /\ \A i \in DOMAIN query_tokens :
               LET t == query_tokens[i]
               IN  /\ \A k \in DOMAIN t : t[k] \notin UpperSet
                   /\ Lower(t) = t
                   /\ t \notin STOPWORDS
                   /\ Len(t) > 1
                   /\ IsPlatformShaped(t) =>
                          (LetterRun(t) \notin TokenSet /\ DigitRun(t) \notin TokenSet)

\* The query holds a platform-shaped word and, as words of their own, its
\* two-character letter run and digit run, a stopword and a single letter
C11_Witness ==
    /\ Tokenized
    /\ query = JoinSpace(<< <<"o", "h", "_", "5", "8">>, <<"o", "h">>, <<"5", "8">> >>)
    /\ query_tokens = << <<"o", "h", "_", "5", "8">> >>

\* The position of the first occurrence of t in seq
FirstIndex(seq, t) ==
    CHOOSE i \in DOMAIN seq : seq[i] = t /\ \A j \in 1..(i - 1) : seq[j] # t

\* The positions of s where t stands as a whole run of lowercase letters
\* and digits
RunPositions(s, t) ==
    {i \in 1..Len(s) :
        /\ i + Len(t) - 1 <= Len(s)
        /\ \A j \in 1..Len(t) : s[i + j - 1] = t[j]
        /\ (i = 1 \/ s[i - 1] \notin LowerAlnum)
        /\ (i + Len(t) - 1 = Len(s) \/ s[i + Len(t)] \notin LowerAlnum)}

SetMin(S) == CHOOSE x \in S : \A y \in S : x <= y

\* C12: the token list is the platform-shaped matches in order of first
\* occurrence, then the filtered generic tokens in order of first occurrence,
\* each value once: every platform-shaped token stands before every generic
\* token wherever they are in the query, and "AH-1 oil pressure" gives
\* exactly ["ah-1", "oil", "pressure"].
C12_PlatformTokensThenGeneric ==
    Tokenized =>
        LET query_lower == Lower(query)
            matches == FindAllPlatform(query_lower, 1)
            generic == FilterRegular(FindAllAlnum(query_lower, 1), PlatformParts(matches))
        IN  /\ TokenSet = Range(matches) \cup Range(generic)
            /\ \A i \in DOMAIN query_tokens :
                   IsPlatformShaped(query_tokens[i]) <=> query_tokens[i] \in Range(matches)
            /\ \A i, j \in DOMAIN query_tokens :
                   i < j =>
                     LET t == query_tokens[i]
                         u == query_tokens[j]
                     IN  /\ IsPlatformShaped(u) => IsPlatformShaped(t)
                         /\ IsPlatformShaped(u) =>
                                FirstIndex(matches, t) < FirstIndex(matches, u)
                         /\ ~IsPlatformShaped(t) =>
                                /\ RunPositions(query_lower, t) # {}
                                /\ RunPositions(query_lower, u) # {}
                                /\ SetMin(RunPositions(query_lower, t))
                                       < SetMin(RunPositions(query_lower, u))
            /\ query = s_AH1_oil_pressure =>
                   query_tokens = << <<"a", "h", "-", "1">>, s_oil,
                                     <<"p", "r", "e", "s", "s", "u", "r", "e">> >>

\* A generic word stands in the query before a platform-shaped one and is
\* repeated after it: the platform token comes first, the word once
C12_Witness ==
    /\ Tokenized
    /\ query = JoinSpace(<<s_Oil, <<"R", "c", "1", "2">>, s_oil>>)
    /\ query_tokens = << <<"r", "c", "1", "2">>, s_oil >>

\* The round trip of the specification: "AH-1 oil pressure"
C12_WitnessRoundTrip ==
    /\ Tokenized
    /\ query = s_AH1_oil_pressure
    /\ Len(query_tokens) = 3

----------------------------------------------------------------------------
(* Properties of calls at the same time, checked under SpecCalls *)

\* C13: a retrieval call has no side effect and keeps no state: no step of
\* any call changes the corpus list or a chunk in it, and every call, however
\* its steps are interleaved with those of the other calls, returns what the
\* call returns when it runs alone on its query, the corpus and its top_k.
C13_CallsIndependent ==
    /\ [](\A c \in DOMAIN calls :
             calls[c].pc = "done" =>
                 LET alone == weighted_keyword_search(calls[c].query, knowledge_base,
                                                      calls[c].top_k)
                 IN  ~alone.raised /\ calls[c].result = alone.chunks)
    /\ [][knowledge_base' = knowledge_base]_vars

\* Two calls with different queries over a two-chunk corpus: the second has
\* returned while the first is in the middle of its chunk loop with a
\* candidate collected, and the second's result is not what the first's
\* query gives
C13_Witness ==
    /\ Len(calls) = 2
    /\ Len(knowledge_base) = 2
    /\ calls[1].pc = "loop" /\ calls[1].idx = 1 /\ calls[1].scored_chunks # <<>>
    /\ calls[2].pc = "done" /\ calls[2].result # <<>>
    /\ calls[2].result #
           weighted_keyword_search(calls[1].query, knowledge_base, calls[1].top_k).chunks

----------------------------------------------------------------------------
(* Properties of format_context, checked under SpecFormat *)

Formatted == fpc = "done"

StartsWith(s, prefix) ==
    Len(prefix) <= Len(s) /\ SubSeq(s, 1, Len(prefix)) = prefix

\* C14: format_context returns exactly "No relevant context found." if and
\* only if the chunk list is empty; for a non-empty list the output starts
\* with the header of source 1 and is not the sentinel.
C14_SentinelIffEmpty ==
    Formatted =>
        /\ context = s_NoContext <=> chunks = <<>>
        /\ chunks # <<>> =>
               StartsWith(context, <<"[", "S", "o", "u", "r", "c", "e", " ", "1", ":", " ">>)

\* The empty list has been formatted
C14_Witness ==
    /\ Formatted
    /\ chunks = <<>>
    /\ context = s_NoContext

\* A list of one chunk without text, source or page has been formatted
C14_WitnessBareChunk ==
    /\ Formatted
    /\ Len(chunks) = 1
    /\ DOMAIN chunks[1] = {"text"}
    /\ context # s_NoContext

\* Where section i starts in the returned string: after the sections before
\* it and a two-character separator after each
RECURSIVE SectionOffset(_)
SectionOffset(i) ==
    IF i = 1 THEN 1 ELSE SectionOffset(i - 1) + Len(context_parts[i - 1]) + 2

\* Section i as it stands in the returned string
EmittedSection(i) ==
    SubSeq(context, SectionOffset(i), SectionOffset(i) + Len(context_parts[i]) - 1)

\* The position of the first newline of a section: the end of its header line
HeaderEnd(section) ==
    CHOOSE p \in 1..Len(section) :
        section[p] = "\n" /\ \A q \in 1..(p - 1) : section[q] # "\n"

\* The header line of a section and the text under it
HeaderLine(section) == SubSeq(section, 1, HeaderEnd(section) - 1)
TextPart(section) == SubSeq(section, HeaderEnd(section) + 1, Len(section))

\* C15: the text part of every emitted section is exactly the first
\* min(800, length) characters of its chunk's text, so never more than 800
\* characters, wherever the cut falls.
C15_TextCutAt800 ==
    (Formatted /\ chunks # <<>>) =>
        \A i \in DOMAIN chunks :
            LET text == IF "text" \in DOMAIN chunks[i] THEN chunks[i].text ELSE <<>>
                kept == TextPart(EmittedSection(i))
            IN  /\ Len(kept) <= 800
                /\ Len(kept) = Min(800, Len(text))
                /\ \A j \in 1..Len(kept) : kept[j] = text[j]

\* Two chunks: the first text is longer than 800 characters and is cut
\* inside a word, the second has exactly 800 and is kept whole
C15_Witness ==
    /\ Formatted
    /\ Len(chunks) = 2
    /\ \A i \in 1..2 : "text" \in DOMAIN chunks[i]
    /\ Len(chunks[1].text) > 800
    /\ chunks[1].text[800] # " " /\ chunks[1].text[801] # " "
    /\ Len(TextPart(EmittedSection(1))) = 800
    /\ Len(chunks[2].text) = 800
    /\ TextPart(EmittedSection(2)) = chunks[2].text

EndsWith(s, suffix) ==
    Len(suffix) <= Len(s) /\ SubSeq(s, Len(s) - Len(suffix) + 1, Len(s)) = suffix

\* C16: format_context does not fail on a chunk without `source` or `page`:
\* it always has a next step until it returns, the header of a chunk without
\* source reads "Unknown" for the source, the header of a chunk without page
\* reads "?" for the page, and the header of every chunk that has both is
\* made of its own source and page whatever the other chunks lack.
C16_MissingFieldsDefaulted ==
    /\ fpc \in {"start", "loop"} => ENABLED NextFormat
    /\ (Formatted /\ chunks # <<>>) =>
           \A i \in DOMAIN chunks :
               LET c == chunks[i]
                   h == HeaderLine(EmittedSection(i))
                   open == <<"[", "S", "o", "u", "r", "c", "e", " ">> \o IntStr(i) \o <<":", " ">>
               IN  /\ "source" \notin DOMAIN c =>
                          StartsWith(h, open \o <<"U", "n", "k", "n", "o", "w", "n", ",", " ", "P", "a", "g", "e", " ">>)
                   /\ "page" \notin DOMAIN c => EndsWith(h, <<",", " ", "P", "a", "g", "e", " ", "?", "]">>)
                   /\ ("source" \in DOMAIN c /\ "page" \in DOMAIN c) =>
                          h = open \o c.source \o <<",", " ", "P", "a", "g", "e", " ">> \o IntStr(c.page) \o <<"]">>

\* A chunk with neither source nor page has been formatted before a chunk
\* that has both
C16_Witness ==
    /\ Formatted
    /\ Len(chunks) = 2
    /\ "source" \notin DOMAIN chunks[1] /\ "page" \notin DOMAIN chunks[1]
    /\ "source" \in DOMAIN chunks[2] /\ "page" \in DOMAIN chunks[2]
    /\ HeaderLine(EmittedSection(1)) = <<"[", "S", "o", "u", "r", "c", "e", " ", "1", ":", " ", "U", "n", "k", "n", "o", "w", "n", ",", " ", "P", "a", "g", "e", " ", "?", "]">>

\* The header of section i for a chunk: its number, the chunk's source and
\* page (or the placeholders)
HeaderFor(i, c) ==
    <<"[", "S", "o", "u", "r", "c", "e", " ">> \o IntStr(i) \o <<":", " ">>
        \o (IF "source" \in DOMAIN c THEN c.source ELSE <<"U", "n", "k", "n", "o", "w", "n">>)
        \o <<",", " ", "P", "a", "g", "e", " ">>
        \o (IF "page" \in DOMAIN c THEN IntStr(c.page) ELSE <<"?">>)
        \o <<"]">>

\* C17: for a list of n >= 1 chunks the returned string is n sections in the
\* order of the list and nothing else, section i headed by the number i with
\* chunk i's source and page, followed by chunk i's text, two consecutive
\* sections separated by exactly one blank line.
C17_SectionsInListOrder ==
    (Formatted /\ chunks # <<>>) =>
        LET n == Len(chunks)
        IN  /\ Len(context_parts) = n
            /\ SectionOffset(n) + Len(context_parts[n]) - 1 = Len(context)
            /\ \A i \in 1..n :
                   LET section == EmittedSection(i)
                       text == IF "text" \in DOMAIN chunks[i] THEN chunks[i].text ELSE <<>>
                   IN  /\ HeaderLine(section) = HeaderFor(i, chunks[i])
                       /\ StartsWith(text, TextPart(section))
            /\ \A i \in 1..(n - 1) :
                   LET last == SectionOffset(i) + Len(context_parts[i]) - 1
                   IN  /\ context[last + 1] = "\n"
                       /\ context[last + 2] = "\n"
                       /\ context[last + 3] = "["

\* Two chunks of different sources, the one with the higher page number and
\* the shorter text first: the sections stand in list order, numbered 1, 2
C17_Witness ==
    /\ Formatted
    /\ Len(chunks) = 2
    /\ \A i \in 1..2 : {"source", "page", "text"} \subseteq DOMAIN chunks[i]
    /\ chunks[1].source # chunks[2].source
    /\ chunks[1].page > chunks[2].page
    /\ Len(chunks[1].text) < Len(chunks[2].text)
    /\ HeaderLine(EmittedSection(2)) = HeaderFor(2, chunks[2])

----------------------------------------------------------------------------
(* Properties of detect_platform, checked under SpecDetect *)

Detected == dpc = "done"

\* The table positions of the patterns that match somewhere in s
MatchingEntries(s) ==
    {k \in DOMAIN PLATFORM_PATTERNS : PatternSearch(PLATFORM_PATTERNS[k], s)}

\* The positions of s at which the pattern of table entry k matches
MatchPositions(k, s) ==
    {i \in 1..Len(s) :
        \E alt \in PLATFORM_PATTERNS[k].alts :
            AltMatchesAt(s, i, alt, PLATFORM_PATTERNS[k].left_b, PLATFORM_PATTERNS[k].right_b)}

\* C18: detect_platform returns the tag of the first pattern, in the order
\* of the table, that matches anywhere in the input, and UNKNOWN iff none
\* matches; when several patterns match, the earliest declared wins, wherever
\* the matches lie: "UH-60 AH1" is AH-1, "C-12 RC-12" is RC-12.
C18_FirstDeclaredPatternWins ==
    Detected =>
        /\ detected = s_UNKNOWN <=> MatchingEntries(filename) = {}
        /\ MatchingEntries(filename) # {} =>
               /\ detected = PLATFORM_PATTERNS[SetMin(MatchingEntries(filename))].tag
               /\ pattern_idx = SetMin(MatchingEntries(filename))
        /\ filename = JoinSpace(<<<<"U", "H", "-", "6", "0">>, <<"A", "H", "1">>>>) => detected = s_AH1
        /\ filename = JoinSpace(<<<<"C", "-", "1", "2">>, s_RC12>>) => detected = s_RC12

\* Two patterns match: the one declared later matches earlier in the input,
\* the one declared first wins
C18_Witness ==
    /\ Detected
    /\ \E j, k \in MatchingEntries(filename) :
           /\ j < k
           /\ SetMin(MatchPositions(k, filename)) < SetMin(MatchPositions(j, filename))
           /\ detected = PLATFORM_PATTERNS[j].tag
           /\ detected # PLATFORM_PATTERNS[k].tag

IsLetter(c) == c \in LowerSet \cup UpperSet

\* s in its own, lower, upper and mixed letter case
CaseForms(s) ==
    {s, Lower(s), Upper(s),
     [i \in 1..Len(s) |-> IF i % 2 = 1 THEN LowerChar(s[i]) ELSE Upper(s)[i]]}

Separators == {<<"-">>, <<"_">>, <<>>}

\* The forms of a tag: its letters and its digits with a hyphen, an
\* underscore or nothing between them, in every letter case
TagForms(tag) ==
    LET letters == SelectSeq(tag, IsLetter)
        digits == SelectSeq(tag, IsDigit)
    IN  IF digits = <<>> THEN CaseForms(letters)
        ELSE UNION {CaseForms(letters \o x \o digits) : x \in Separators}

\* The positions of s that hold a separator between a letter and a digit,
\* and those that hold a letter directly followed by a digit
SeparatorSites(s) ==
    {i \in 2..(Len(s) - 1) :
        s[i] \in {"-", "_"} /\ IsLetter(s[i - 1]) /\ IsDigit(s[i + 1])}
JointSites(s) ==
    {i \in 1..(Len(s) - 1) : IsLetter(s[i]) /\ IsDigit(s[i + 1])}

\* s with the separator of one identifier replaced by another variant
SeparatorVariants(s) ==
    {SubSeq(s, 1, i - 1) \o x \o SubSeq(s, i + 1, Len(s)) :
        i \in SeparatorSites(s), x \in Separators}
      \cup {SubSeq(s, 1, i) \o x \o SubSeq(s, i + 1, Len(s)) :
                i \in JointSites(s), x \in Separators}

\* s with a separator replaced or its letter case changed, or both
Variants(s) == UNION {CaseForms(v) : v \in {s} \cup SeparatorVariants(s)}

HasHyphen(tag) == \E i \in DOMAIN tag : tag[i] = "-"

\* C19 as claimed: whatever tag is detected, every form of that tag (hyphen,
\* underscore or no separator, any letter case) is detected as it, and the
\* input gives the same tag with a separator replaced or the case changed.
C19_EveryTagAnySeparatorAnyCase ==
    Detected =>
        /\ detected # s_UNKNOWN =>
               \A form \in TagForms(detected) : detect_platform(form) = detected
        /\ \A v \in Variants(filename) : detect_platform(v) = detected

\* C19 amended: the same for the nine tags written with a hyphen; M1 and M2
\* are detected in any letter case but only with no separator, HMMWV in any
\* letter case.
C19_HyphenTagsAnySeparatorAnyCase ==
    Detected =>
        /\ HasHyphen(detected) =>
               /\ \A form \in TagForms(detected) : detect_platform(form) = detected
               /\ \A v \in Variants(filename) : detect_platform(v) = detected
        /\ (detected # s_UNKNOWN /\ ~HasHyphen(detected)) =>
               /\ \A form \in CaseForms(detected) : detect_platform(form) = detected
               /\ \A form \in TagForms(detected) :
                      (\E i \in DOMAIN form : form[i] \in {"-", "_"})
                          => detect_platform(form) = s_UNKNOWN

\* A filename with a lower-case identifier written with an underscore and
\* one written with no separator has been detected as a hyphenated tag
C19_Witness ==
    /\ Detected
    /\ HasHyphen(detected)
    /\ \E i \in SeparatorSites(filename) :
           filename[i] = "_" /\ filename[i - 1] \in LowerSet
    /\ JointSites(filename) # {}

----------------------------------------------------------------------------
(* Properties of the chat loop, checked under SpecLoop *)

\* The line read last was a question (not blank, not a command) and the
\* loop has answered it and goes on
QuestionAnswered ==
    /\ mpc = "running"
    /\ turns >= 1
    /\ user_input # <<>>
    /\ Lower(user_input) \notin Commands

\* The entries of the unsupported list that the lowercased line holds
UnsupportedIn(line) ==
    {k \in DOMAIN unsupported_platforms : Contains(Lower(line), unsupported_platforms[k])}

Retrieved(line) == weighted_keyword_search(line, knowledge_base, TOP_K_CHUNKS)

\* A line that is neither blank nor a command
IsQuestion(line) == line # <<>> /\ Lower(line) \notin Commands

\* This step read a question (input() returned: no goodbye was printed) for
\* which retrieval returned the empty list
EmptyResultStep ==
    /\ turns' = turns + 1
    /\ printed'.kind # "goodbye"
    /\ IsQuestion(user_input')
    /\ ~Retrieved(user_input').raised
    /\ Retrieved(user_input').chunks = <<>>

\* C21 as stated: whenever retrieval returns the empty list for a question,
\* the loop prints the no-information message, sends no generation request,
\* raises nothing and goes on.
C21_EmptyResultNoInformation ==
    [][EmptyResultStep =>
           /\ printed' = [kind |-> "no information", about |-> <<>>]
           /\ requests' = requests
           /\ mpc' = "running"]_vars

\* C21, amended: whenever retrieval returns the empty list for a question,
\* the loop sends no generation request, raises nothing and goes on, and it
\* prints the no-information message when the question holds no entry of
\* the unsupported list (otherwise the refusal is printed instead).
C21_EmptyResultNoInformationUnlessRefused ==
    [][EmptyResultStep =>
           /\ requests' = requests
           /\ mpc' = "running"
           /\ last_chunks' = <<>>
           /\ IF UnsupportedIn(user_input') = {}
              THEN printed' = [kind |-> "no information", about |-> <<>>]
              ELSE printed'.kind = "refusal"]_vars

\* After a question that was sent to generation, a question of stopwords
\* only got the no-information message and the loop goes on
C21_Witness ==
    /\ QuestionAnswered
    /\ user_input = <<"t", "o">>
    /\ Retrieved(user_input).chunks = <<>>
    /\ last_chunks = <<>>
    /\ printed = [kind |-> "no information", about |-> <<>>]
    /\ Len(requests) = 1

----------------------------------------------------------------------------
(* Properties of ingestion, checked under SpecIngest *)

\* The maximal runs of non-whitespace characters of a text, in order
RECURSIVE WordsOf(_)
WordsOf(raw) ==
    IF raw = <<>> THEN <<>>
    ELSE IF raw[1] \in Whitespace THEN WordsOf(Tail(raw))
    ELSE LET stops == {i \in 1..Len(raw) : raw[i] \in Whitespace}
             last == IF stops = {} THEN Len(raw) ELSE SetMin(stops) - 1
         IN  <<SubSeq(raw, 1, last)>> \o WordsOf(SubSeq(raw, last + 1, Len(raw)))

\* No whitespace but single spaces between two other characters
WhitespaceCollapsed(text) ==
    \A i \in 1..Len(text) :
        text[i] \in Whitespace =>
            /\ text[i] = " "
            /\ 1 < i /\ i < Len(text)
            /\ text[i + 1] \notin Whitespace

\* The raw text of the page a chunk names, in the PDF it names
PageOf(chunk) == FileNamed(chunk.source).pages[chunk.page]

\* C22: every chunk ingestion has produced has non-empty text with
\* whitespace collapsed, and a page number >= 1 that is the 1-indexed
\* position, in its PDF, of the page its text was cleaned from: blank pages
\* give no chunk and shift no page number.
C22_ChunksNonEmptyAtTheirPage ==
    \A i \in DOMAIN ingested :
        LET chunk == ingested[i]
        IN  /\ chunk.text # <<>>
            /\ WhitespaceCollapsed(chunk.text)
            /\ chunk.page >= 1
            /\ chunk.page <= Len(FileNamed(chunk.source).pages)
            /\ WordsOf(PageOf(chunk)) # <<>>
            /\ chunk.text = JoinSpace(WordsOf(PageOf(chunk)))

\* Ingestion has returned chunks among which one stands after a blank page
\* of its PDF (its page number is above its place among the PDF's chunks)
\* and one has text that differs from the raw text of its page
C22_Witness ==
    /\ ipc = "done"
    /\ \E i \in DOMAIN ingested :
           /\ ingested[i].page = 3
           /\ Cardinality({j \in DOMAIN ingested : ingested[j].source = ingested[i].source}) = 2
    /\ \E i \in DOMAIN ingested : ingested[i].text # PageOf(ingested[i])
    /\ \E i \in DOMAIN ingested : ingested[i].page = 2 /\ ingested[i].source = s_uh60_PDF

\* C23: the ids of the chunks ingestion has built are pairwise distinct,
\* whatever PDFs the folder holds, with blank pages skipped and with PDFs
\* that fitz fails on.
C23_ChunkIdsDistinct ==
    \A i, j \in DOMAIN ingested : i # j => ingested[i].id # ingested[j].id

\* Ingestion has returned over a folder with a PDF that cannot be opened, a
\* PDF that fails after its first pages and a PDF with a blank page, and two
\* chunks of different PDFs have the same page number
C23_Witness ==
    /\ ipc = "done"
    /\ \E f \in Range(folder.files) : f.broken /\ f.readable = 0
    /\ \E f \in Range(folder.files) : f.broken /\ f.readable > 0
    /\ \E i, j \in DOMAIN ingested :
           /\ ingested[i].page = ingested[j].page
           /\ ingested[i].source # ingested[j].source
    /\ \E i \in DOMAIN ingested : ingested[i].page = 3 /\ ingested[i].id = ChunkId(2, 3)

----------------------------------------------------------------------------
(* Properties of the knowledge base file, checked under SpecStore *)

\* The file is missing or holds no JSON document
MissingOrInvalid == ~kb_file.exists \/ kb_file.bytes \in InvalidFiles

\* The file holds a byte that is not UTF-8
Undecodable == kb_file.exists /\ \E i \in DOMAIN kb_file.bytes : kb_file.bytes[i] = Byte_FF

\* This step is the start of main: load_knowledge_base has returned or raised
MainStarted == mpc = "start" /\ mpc' # "start"

\* main has left because the knowledge base is empty: no line was read, no
\* retrieval and no generation took place, and no step of the chat loop can
\* be taken
LeftBeforeLoop ==
    (mpc = "ended" /\ printed.kind = "fatal") =>
        /\ turns = 0
        /\ user_input = <<>>
        /\ last_chunks = <<>>
        /\ requests = <<>>
        /\ ~ENABLED NextLoop

\* C24 as claimed: load_knowledge_base raises neither on a missing file nor
\* on a file that holds no JSON document but returns the empty list, and
\* main then leaves before reading a line or calling retrieval or
\* generation; on a file written by save_knowledge_base it returns the
\* saved list.
C24_LoadReturnsEmptyOrSaved ==
    /\ [][MainStarted =>
              IF MissingOrInvalid
              THEN /\ mpc' = "ended"
                   /\ printed'.kind = "fatal"
                   /\ knowledge_base' = <<>>
              ELSE /\ mpc' = (IF ingested = <<>> THEN "ended" ELSE "running")
                   /\ knowledge_base' = ingested]_vars
    /\ []LeftBeforeLoop

\* The same with the file that is not UTF-8 set apart: on that file
\* load_knowledge_base raises and main leaves with a traceback
C24_ExceptUndecodableFile ==
    /\ [][MainStarted =>
              IF Undecodable
              THEN /\ mpc' = "raised"
                   /\ printed'.kind = "traceback"
                   /\ knowledge_base' = <<>>
              ELSE IF MissingOrInvalid
              THEN /\ mpc' = "ended"
                   /\ printed'.kind = "fatal"
                   /\ knowledge_base' = <<>>
              ELSE /\ mpc' = (IF ingested = <<>> THEN "ended" ELSE "running")
                   /\ knowledge_base' = ingested]_vars
    /\ []LeftBeforeLoop

\* main has loaded the two chunks save_knowledge_base wrote, one of them
\* with a quote and a backslash in its text and source, and is in the loop
C24_WitnessRoundTrip ==
    /\ ipc = "saved"
    /\ mpc = "running"
    /\ Len(knowledge_base) = 2
    /\ knowledge_base = ingested
    /\ \E i \in DOMAIN knowledge_base : knowledge_base[i].source = s_quoted_pdf

\* main has left on a file that holds text which is no JSON
C24_WitnessInvalid ==
    /\ mpc = "ended"
    /\ printed.kind = "fatal"
    /\ kb_file.exists
    /\ kb_file.bytes = <<"[", "]", " ", "x">>

----------------------------------------------------------------------------
(* Properties of keyword relevance, checked under SpecScore *)

\* No query token stands as a whole word in the lowercased text of chunk i
NoKeyword(i) ==
    \A k \in DOMAIN query_tokens :
        WholeWordPositions(Lower(knowledge_base[i].text), query_tokens[k]) = {}

\* The query names the platform of chunk i: its tag is not UNKNOWN and,
\* lowercased, is a substring of the lowercased query
NamedByQuery(i) ==
    /\ "platform" \in DOMAIN knowledge_base[i]
    /\ knowledge_base[i].platform # s_UNKNOWN
    /\ Contains(Lower(query), Lower(knowledge_base[i].platform))

\* The lowercased text of chunk i holds the phrase of the first three tokens
PhraseInText(i) ==
    /\ Len(query_tokens) >= 2
    /\ Contains(Lower(knowledge_base[i].text), PhraseOfFirstThree(query_tokens))

\* C25 as claimed: a chunk in whose text no query token stands as a whole
\* word is not in the result, so a query none of whose tokens stands in any
\* chunk returns the empty list.
C25_NoKeywordNotReturned ==
    Returned =>
        /\ \A i \in DOMAIN knowledge_base : NoKeyword(i) => ~InResult(i)
        /\ (\A i \in DOMAIN knowledge_base : NoKeyword(i)) => result = <<>>

\* C25, amended: a chunk in whose text no query token stands as a whole
\* word is in the result only if the query names its platform or its text
\* holds the phrase of the first three tokens; a query none of whose tokens
\* stands in any chunk, that names no chunk's platform and whose phrase is
\* in no chunk's text, returns the empty list.
C25_NoKeywordReturnedOnlyByBonus ==
    Returned =>
        /\ \A i \in DOMAIN knowledge_base :
               (NoKeyword(i) /\ InResult(i)) => (NamedByQuery(i) \/ PhraseInText(i))
        /\ (\A i \in DOMAIN knowledge_base :
                NoKeyword(i) /\ ~NamedByQuery(i) /\ ~PhraseInText(i)) => result = <<>>

\* A query of two tokens has returned nothing for a chunk that holds
\* neither token as a whole word (one of them inside a longer word), whose
\* platform it does not name and whose text does not hold its phrase
C25_Witness ==
    /\ Returned
    /\ Len(query_tokens) = 2
    /\ Len(knowledge_base) = 1
    /\ NoKeyword(1) /\ ~NamedByQuery(1) /\ ~PhraseInText(1)
    /\ \E k \in DOMAIN query_tokens :
           SubstringPositions(Lower(knowledge_base[1].text), query_tokens[k]) # {}
    /\ result = <<>>

\* A chunk that holds no token as a whole word has been returned for the
\* phrase alone: the query does not name its platform
C25_WitnessPhraseAlone ==
    /\ Returned
    /\ NoKeyword(1) /\ ~NamedByQuery(1) /\ PhraseInText(1)
    /\ result = <<1>>

\* A chunk that holds no token as a whole word has been returned for its
\* platform alone
C25_WitnessPlatformAlone ==
    /\ Returned
    /\ NoKeyword(1) /\ NamedByQuery(1) /\ ~PhraseInText(1)
    /\ \E k \in DOMAIN query_tokens :
           SubstringPositions(Lower(knowledge_base[1].text), query_tokens[k]) # {}
    /\ result = <<1>>

----------------------------------------------------------------------------
(* Properties of the last result set, checked under SpecLoop *)

\* This step read a line: input() returned (the goodbye of an interrupted
\* input() is the only one not printed for /quit)
LineRead ==
    /\ turns' = turns + 1
    /\ ~(printed'.kind = "goodbye" /\ Lower(user_input') # s_quit)

\* Every chunk of the last result set has the keys /sources prints
SourcesPrintable ==
    \A i \in DOMAIN last_chunks :
        {"source", "page", "platform"} \subseteq DOMAIN knowledge_base[last_chunks[i]]

\* What /sources reports for the last result set
SourcesReport ==
    IF last_chunks = <<>> THEN [kind |-> "no sources", about |-> <<>>]
    ELSE [kind |-> "sources", about |-> last_chunks]

\* Blank lines and the commands leave the last result set alone; a question
\* for which retrieval returns replaces it with what retrieval returned,
\* whatever answer the question then gets
LastResultSetKept ==
    /\ (user_input' = <<>> \/ Lower(user_input') \in Commands) =>
           last_chunks' = last_chunks
    /\ (IsQuestion(user_input') /\ ~Retrieved(user_input').raised) =>
           /\ last_chunks' = Retrieved(user_input').chunks
           /\ printed'.kind \in {"refusal", "no information", "response"}

\* C26 as claimed: the last result set is what the loop carries from one
\* iteration to the next: blank input, /help, /status and /sources leave it
\* unchanged, any other input replaces it with the list retrieval returned
\* for it (also when the input is refused or gets the no-information
\* message), and /sources always reports that set, or that there are no
\* previous sources when it is empty.
C26_LastResultSetCarried ==
    [][LineRead =>
           /\ LastResultSetKept
           /\ Lower(user_input') = s_sources =>
                  /\ printed' = SourcesReport
                  /\ mpc' = "running"]_vars

\* The same with /sources on a chunk that lacks a key set apart: there
\* /sources raises KeyError and main leaves with a traceback
C26_ExceptSourcesOfChunkWithoutKey ==
    [][LineRead =>
           /\ LastResultSetKept
           /\ Lower(user_input') = s_sources =>
                  IF SourcesPrintable
                  THEN printed' = SourcesReport /\ mpc' = "running"
                  ELSE printed'.kind = "traceback" /\ mpc' = "raised"]_vars

\* /sources has reported the chunk a refused question retrieved, after a
\* question that retrieved nothing
C26_WitnessSourcesAfterRefusal ==
    /\ mpc = "running"
    /\ turns = 3
    /\ Lower(user_input) = s_sources
    /\ printed = [kind |-> "sources", about |-> <<1>>]
    /\ requests = <<>>

====
